---- MODULE Spec2Model ----
(***************************************************************************)
(* Reconciliation and health-sync engine (data_sync_service.py,            *)
(* service_discovery.py, k8s_client.py) and the GitHub webhook fast path   *)
(* (github_webhook_handler.py).                                            *)
(*                                                                         *)
(* Collections of the document store are sequences of documents in natural *)
(* (insertion) order, so that duplicates and the document find_one returns *)
(* are observable.  Names are sequences of characters, so that the         *)
(* case-insensitive substring match of the application lookup is computed. *)
(***************************************************************************)
EXTENDS Integers, Sequences, FiniteSets, TLC

\* ------------------------------------------------------------------ bounds
MaxRuns == 2
MaxEnvChanges == 1
MaxReplicas == 2
MaxCommits == 2
MaxPasses == 2
MaxClock == 1
MaxCalls == 2
MaxTicks == 2
MaxStops == 1

\* --------------------------------------------------------------- constants
\* value standing for a key that a status payload does not carry
Absent == -1
\* an optional document: <<>> for None, <<doc>> otherwise
NoDoc == <<>>
NoError == "None"

NsDev == "dev"
NsProd == "prod"
SvcOrders == <<"o", "r">>
SvcPay == <<"p">>
AppOrders == <<"O", "R", "x">>
AppPay == <<"p", "q">>

\* ------------------------------------------------------------------- state
VARIABLES
    cluster_resources,    \* objects kubectl reports (the live cluster)
    cluster_apps,         \* applications argocd reports
    env_changes,          \* number of changes of the live state so far
    k8s_resources,        \* db.devportal.k8s_resources
    argocd_applications,  \* db.devportal.argocd_applications
    services,             \* db.devportal.services
    service_health,       \* db.devportal.service_health
    sync_jobs,            \* db.devportal.sync_jobs
    cluster_info,         \* db.devportal.cluster_info
    pc,                   \* position of the sync run in full_sync / incremental_sync
    run,                  \* locals of the sync run in flight
    now,                  \* datetime.now(), a logical clock
    runs,                 \* number of sync runs started
    last_saved,           \* per collection, key -> document of the last successful replace_one
    disc_log,             \* one entry per finished discover_existing_services pass
    health_log,           \* outcome of the last _update_service_health pass
    wh_secret,            \* GitHubWebhookHandler.webhook_secret
    wh_requests,          \* requests posted to the ArgoCD API, in order
    wh_result,            \* what handle_webhook gave its caller
    wh_input,             \* the webhook call handled last: event type, payload, signature
    tasks,                \* coroutines in flight: task id -> its position and locals
    is_running,           \* the is_running flag of the service that owns the periodic loop
    collection            \* MongoDBClient.collection: argocd_apps.applications, unique by name

storeVars == <<k8s_resources, argocd_applications, services, service_health, sync_jobs, cluster_info>>
envVars == <<cluster_resources, cluster_apps, env_changes>>
runVars == <<pc, run, now, runs, last_saved, disc_log, health_log>>
syncVars == <<storeVars, envVars, runVars>>
webhookVars == <<wh_secret, wh_requests, wh_result, wh_input>>
taskVars == <<tasks, is_running, collection>>
vars == <<syncVars, webhookVars, taskVars>>

\* ----------------------------------------------------------------- helpers
Range(s) == {s[i] : i \in 1..Len(s)}

Lower(c) ==
    CASE c = "O" -> "o"
      [] c = "R" -> "r"
      [] c = "P" -> "p"
      [] OTHER -> c

\* Mongo {"$regex": ".*needle.*", "$options": "i"} on names made of letters
ContainsCI(hay, needle) ==
    \E k \in 0..(Len(hay) - Len(needle)) :
        \A j \in 1..Len(needle) : Lower(hay[k + j]) = Lower(needle[j])

UidRank(uid) ==
    CASE uid = "u3" -> 1
      [] uid = "u1" -> 2
      [] uid = "u2" -> 3
      [] uid = "u4" -> 4
      [] uid = "" -> 5
      [] uid = "a1" -> 6
      [] uid = "a2" -> 7
      [] OTHER -> 8

\* the items of a listing in the order the CLI prints them
RECURSIVE SeqOf(_)
SeqOf(S) ==
    IF S = {} THEN <<>>
    ELSE LET m == CHOOSE x \in S : \A y \in S : UidRank(x.uid) <= UidRank(y.uid)
         IN <<m>> \o SeqOf(S \ {m})


\* ------------------------------------------------------ the live cluster
Deployment(uid, name, ns, replicas, ready, containers) ==
    [uid |-> uid, kind |-> "Deployment", name |-> name, namespace |-> ns,
     replicas |-> replicas, readyReplicas |-> ready, containers |-> containers]

\* a Service object: its status payload carries no replica counts
ServiceObj(uid, name, ns) ==
    [uid |-> uid, kind |-> "Service", name |-> name, namespace |-> ns,
     replicas |-> Absent, readyReplicas |-> Absent, containers |-> 0]

Application(uid, name, health) == [uid |-> uid, name |-> name, health |-> health]

\* u2 is the orders deployment deleted and created again: same name, new uid
ResourceUniverse ==
    {Deployment(u, SvcOrders, NsProd, r, 1, 1) : u \in {"u1", "u2"}, r \in 1..2}
    \cup {Deployment("u3", SvcPay, NsDev, 1, 1, c) : c \in 0..1}
    \cup {ServiceObj("u4", SvcOrders, NsProd)}

ApplicationUniverse ==
    {Application("a1", AppOrders, h) : h \in {"Healthy", "Degraded"}}
    \cup {Application("a2", AppPay, "Progressing")}

\* the API server keeps (kind, namespace, name) unique, and so the uid
ValidCluster(S) ==
    \A x, y \in S : (x.kind = y.kind /\ x.namespace = y.namespace /\ x.name = y.name) => x = y

ValidApps(S) == \A x, y \in S : x.name = y.name => x = y

ClusterStates == {S \in SUBSET ResourceUniverse : ValidCluster(S)}
AppStates == {S \in SUBSET ApplicationUniverse : ValidApps(S)}

Namespaces == <<NsDev, NsProd>>
Kinds == <<"Pod", "Deployment", "Service", "Ingress">>

\* the uid of an item whose JSON has no "uid" key
MissingField == "<missing>"

\* the body of a K8sClient.get_* call: metadata["uid"] of an item without the
\* key raises KeyError inside the loop, the except around the whole body
\* logs it and the call returns []
ParseListing(items) ==
    IF \E x \in items : x.uid = MissingField THEN <<>> ELSE SeqOf(items)

\* K8sClient.get_pods / get_deployments / get_services / get_ingresses of one namespace
ListKind(cluster, kind, ns) == ParseListing({x \in cluster : x.kind = kind /\ x.namespace = ns})

\* K8sClient.get_deployments() with no namespace: --all-namespaces
get_deployments(cluster) == ParseListing({x \in cluster : x.kind = "Deployment"})

\* ArgoCDClient.get_applications: app_details.get("metadata", {}).get("uid", "")
get_applications(apps) ==
    SeqOf({[a EXCEPT !.uid = IF @ = MissingField THEN "" ELSE @] : a \in apps})

\* ------------------------------------------------------------ documents
K8sResourceDocument(resource, t) ==
    [resource_type |-> resource.kind, name |-> resource.name, namespace |-> resource.namespace,
     uid |-> resource.uid, replicas |-> resource.replicas, readyReplicas |-> resource.readyReplicas,
     sync_status |-> "synced", last_event_time |-> t]

ArgoCDApplicationDocument(app, t) ==
    [name |-> app.name, uid |-> app.uid, health |-> app.health,
     sync_status |-> "synced", last_sync_time |-> t]

SyncJobDocument(job_id, job_type, t) ==
    [job_id |-> job_id, job_type |-> job_type, status |-> "running",
     started_at |-> t, completed_at |-> Absent, last_error |-> NoError]

ClusterInfoDocument(cluster_type, count, t) ==
    [cluster_type |-> cluster_type, info |-> count, last_sync |-> t]

\* ServiceDiscovery._create_service_metadata: None for a pod template without containers
create_service_metadata(deployment, t) ==
    IF deployment.containers = 0 THEN NoDoc
    ELSE << [service_name |-> deployment.name, namespace |-> deployment.namespace,
             status |-> "running", discovered_from_k8s |-> TRUE,
             created_at |-> t, last_k8s_sync |-> Absent] >>

\* -------------------------------------------------------- store operations
\* index of the first document with the uid, 0 when there is none
FirstByUid(coll, uid) ==
    IF \E i \in 1..Len(coll) : coll[i].uid = uid
    THEN CHOOSE i \in 1..Len(coll) : coll[i].uid = uid /\ \A j \in 1..(i - 1) : coll[j].uid # uid
    ELSE 0

InsertAlways(coll, doc) == Append(coll, doc)

\* replace_one({"uid": uid}, doc, upsert=True)
UpsertByUid(coll, doc) ==
    LET i == FirstByUid(coll, doc.uid)
    IN IF i = 0 THEN Append(coll, doc) ELSE [coll EXCEPT ![i] = doc]

FirstByService(coll, name, ns) ==
    IF \E i \in 1..Len(coll) : coll[i].service_name = name /\ coll[i].namespace = ns
    THEN CHOOSE i \in 1..Len(coll) :
            /\ coll[i].service_name = name /\ coll[i].namespace = ns
            /\ \A j \in 1..(i - 1) : ~(coll[j].service_name = name /\ coll[j].namespace = ns)
    ELSE 0

\* a lookup on a key the documents do not carry: it never matches
find_service_wrong_key(coll, name, ns) == FALSE

\* services_collection.find_one({"service_name": .., "namespace": ..}) is not None
find_service(coll, name, ns) == FirstByService(coll, name, ns) # 0

\* replace_one({"service_name": .., "namespace": ..}, doc, upsert=True)
UpsertByService(coll, doc) ==
    LET i == FirstByService(coll, doc.service_name, doc.namespace)
    IN IF i = 0 THEN Append(coll, doc) ELSE [coll EXCEPT ![i] = doc]

FirstByClusterType(coll, ct) ==
    IF \E i \in 1..Len(coll) : coll[i].cluster_type = ct
    THEN CHOOSE i \in 1..Len(coll) : coll[i].cluster_type = ct /\ \A j \in 1..(i - 1) : coll[j].cluster_type # ct
    ELSE 0

\* replace_one({"cluster_type": ..}, doc, upsert=True)
UpsertByClusterType(coll, doc) ==
    LET i == FirstByClusterType(coll, doc.cluster_type)
    IN IF i = 0 THEN Append(coll, doc) ELSE [coll EXCEPT ![i] = doc]

\* the record of the last successful save under a key
Remember(f, key, doc) == [k \in DOMAIN f \cup {key} |-> IF k = key THEN doc ELSE f[k]]


\* ------------------------------------------------------- health evaluation
FirstDeployment(coll, name, ns) ==
    IF \E i \in 1..Len(coll) :
          coll[i].name = name /\ coll[i].namespace = ns /\ coll[i].resource_type = "Deployment"
    THEN CHOOSE i \in 1..Len(coll) :
            /\ coll[i].name = name /\ coll[i].namespace = ns /\ coll[i].resource_type = "Deployment"
            /\ \A j \in 1..(i - 1) :
                  ~(coll[j].name = name /\ coll[j].namespace = ns /\ coll[j].resource_type = "Deployment")
    ELSE 0

\* find_one({"name": .., "namespace": .., "resource_type": "Deployment"})
find_deployment(coll, name, ns) ==
    LET i == FirstDeployment(coll, name, ns) IN IF i = 0 THEN NoDoc ELSE <<coll[i]>>

\* status.get(key, 0)
StatusGet(v) == IF v = Absent THEN 0 ELSE v

\* a variant that tests 0 < ready < replicas for "deploying"
get_k8s_service_status_strict(coll, name, ns) ==
    LET deployment == find_deployment(coll, name, ns)
    IN IF deployment = NoDoc THEN "unknown"
       ELSE LET ready_replicas == StatusGet(deployment[1].readyReplicas)
                replicas == StatusGet(deployment[1].replicas)
            IN IF ready_replicas = replicas /\ replicas > 0 THEN "running"
               ELSE IF ready_replicas > 0 /\ ready_replicas < replicas THEN "deploying"
               ELSE "failed"

\* DataSyncService._get_k8s_service_status
get_k8s_service_status(coll, name, ns) ==
    LET deployment == find_deployment(coll, name, ns)
    IN IF deployment = NoDoc THEN "unknown"
       ELSE LET ready_replicas == StatusGet(deployment[1].readyReplicas)
                replicas == StatusGet(deployment[1].replicas)
            IN IF ready_replicas = replicas /\ replicas > 0 THEN "running"
               ELSE IF ready_replicas > 0 THEN "deploying"
               ELSE "failed"

\* find_one({"name": {"$regex": ".*<service_name>.*", "$options": "i"}})
find_application(coll, name) ==
    IF \E i \in 1..Len(coll) : ContainsCI(coll[i].name, name)
    THEN LET i == CHOOSE i \in 1..Len(coll) :
                     ContainsCI(coll[i].name, name) /\ \A j \in 1..(i - 1) : ~ContainsCI(coll[j].name, name)
         IN <<coll[i]>>
    ELSE NoDoc

\* a variant that matches the application name exactly
get_argocd_service_status_exact(coll, name) ==
    IF \E i \in 1..Len(coll) : coll[i].name = name
    THEN coll[CHOOSE i \in 1..Len(coll) : coll[i].name = name].health
    ELSE "unknown"

\* DataSyncService._get_argocd_service_status
get_argocd_service_status(coll, name) ==
    LET app == find_application(coll, name)
    IN IF app = NoDoc THEN "unknown" ELSE app[1].health

\* a variant whose unknown test leaves out "deploying"
determine_overall_health_no_deploying(k8s_status, argocd_status) ==
    IF k8s_status = "running" /\ argocd_status = "Healthy" THEN "healthy"
    ELSE IF k8s_status \in {"unknown"} \/ argocd_status \in {"Progressing", "Unknown"}
         THEN "unknown"
    ELSE "unhealthy"

\* DataSyncService._determine_overall_health
determine_overall_health(k8s_status, argocd_status) ==
    IF k8s_status = "running" /\ argocd_status = "Healthy" THEN "healthy"
    ELSE IF k8s_status \in {"deploying", "unknown"} \/ argocd_status \in {"Progressing", "Unknown"}
         THEN "unknown"
    ELSE "unhealthy"

\* ServiceHealthDocument of one service, as _update_service_health builds it
ServiceHealthDocument(service, resources, applications, t) ==
    LET service_name == service.service_name
        namespace == service.namespace
        k8s_status == get_k8s_service_status(resources, service_name, namespace)
        argocd_status == get_argocd_service_status(applications, service_name)
    IN [service_name |-> service_name, namespace |-> namespace,
        overall_status |-> determine_overall_health(k8s_status, argocd_status),
        k8s_status |-> k8s_status, argocd_status |-> argocd_status,
        last_health_check |-> t,
        k8s_details |-> find_deployment(resources, service_name, namespace),
        argocd_details |-> find_application(applications, service_name)]

\* the loop of _update_service_health from service i on; the save of service
\* failed_at (0: none) raises, which ends the loop in the handler around it
RECURSIVE update_service_health(_, _, _, _, _, _, _)
update_service_health(health, svcs, i, failed_at, resources, applications, t) ==
    IF i > Len(svcs) \/ i = failed_at THEN health
    ELSE update_service_health(
             UpsertByService(health, ServiceHealthDocument(svcs[i], resources, applications, t)),
             svcs, i + 1, failed_at, resources, applications, t)

\* the services whose save went through in that pass
SavedServices(svcs, failed_at) ==
    {i \in 1..Len(svcs) : failed_at = 0 \/ i < failed_at}


\* ------------------------------------------------------------- sync steps
\* DataSyncService._save_k8s_resources
RECURSIVE save_k8s_resources(_, _, _)
save_k8s_resources(coll, resources, t) ==
    IF resources = <<>> THEN coll
    ELSE save_k8s_resources(UpsertByUid(coll, K8sResourceDocument(Head(resources), t)),
                            Tail(resources), t)

\* the listings _sync_k8s_resources saves, in its order: per namespace pods,
\* deployments, services, ingresses
RECURSIVE PullKinds(_, _, _)
PullKinds(cluster, ns, k) ==
    IF k > Len(Kinds) THEN <<>>
    ELSE ListKind(cluster, Kinds[k], ns) \o PullKinds(cluster, ns, k + 1)

RECURSIVE PullNamespaces(_, _)
PullNamespaces(cluster, n) ==
    IF n > Len(Namespaces) THEN <<>>
    ELSE PullKinds(cluster, Namespaces[n], 1) \o PullNamespaces(cluster, n + 1)

\* a variant that saves nothing
sync_k8s_resources_skipped(coll, cluster, t) == coll

\* DataSyncService._sync_k8s_resources
sync_k8s_resources(coll, cluster, t) == save_k8s_resources(coll, PullNamespaces(cluster, 1), t)

\* find_one({"job_type": "incremental_sync", "status": "completed"})
last_incremental_sync(jobs) ==
    \E i \in 1..Len(jobs) : jobs[i].job_type = "incremental_sync" /\ jobs[i].status = "completed"

\* DataSyncService._sync_k8s_resources_incremental: both branches pull everything
sync_k8s_resources_incremental(coll, jobs, cluster, t) ==
    IF ~last_incremental_sync(jobs) THEN sync_k8s_resources(coll, cluster, t)
    ELSE sync_k8s_resources(coll, cluster, t)

\* the loop of _sync_argocd_applications: one replace_one per pulled application
RECURSIVE save_applications(_, _, _)
save_applications(coll, applications, t) ==
    IF applications = <<>> THEN coll
    ELSE save_applications(UpsertByUid(coll, ArgoCDApplicationDocument(Head(applications), t)),
                           Tail(applications), t)

\* a variant that first deletes the stored applications absent from the pull
sync_argocd_applications_pruning(coll, applications, t) ==
    save_applications(
        SelectSeq(coll, LAMBDA d : \E i \in 1..Len(applications) : applications[i].uid = d.uid),
        applications, t)

\* DataSyncService._sync_argocd_applications
sync_argocd_applications(coll, applications, t) == save_applications(coll, applications, t)

\* DataSyncService._sync_argocd_applications_incremental
sync_argocd_applications_incremental(coll, applications, t) ==
    sync_argocd_applications(coll, applications, t)

\* DataSyncService._sync_cluster_info: the k8s record, then the argocd record
sync_cluster_info(coll, cluster, apps, t) ==
    UpsertByClusterType(
        UpsertByClusterType(coll,
            ClusterInfoDocument("k8s", Cardinality({x \in cluster : x.kind = "Deployment"}), t)),
        ClusterInfoDocument("argocd", Cardinality(apps), t))

\* ServiceDiscovery._update_service_from_k8s on the service's deployment
update_service_from_k8s(service, deployment, t) ==
    IF deployment.containers = 0 THEN service
    ELSE [service EXCEPT !.last_k8s_sync = t]

\* ServiceDiscovery.update_existing_services: each stored service is refreshed
\* from the deployment of its name in its namespace, when there is one
RECURSIVE update_existing_services(_, _, _)
update_existing_services(svcs, cluster, t) ==
    IF svcs = <<>> THEN <<>>
    ELSE LET service == Head(svcs)
             deployments == ListKind(cluster, "Deployment", service.namespace)
             found == SelectSeq(deployments, LAMBDA d : d.name = service.service_name)
         IN << IF found = <<>> THEN service ELSE update_service_from_k8s(service, Head(found), t) >>
            \o update_existing_services(Tail(svcs), cluster, t)

\* update_one({"job_id": job_id}, {"$set": {"status": .., "completed_at": .., ["last_error": ..]}})
finalize_job(jobs, job_id, status, t, err) ==
    IF \E i \in 1..Len(jobs) : jobs[i].job_id = job_id
    THEN LET i == CHOOSE i \in 1..Len(jobs) :
                     jobs[i].job_id = job_id /\ \A j \in 1..(i - 1) : jobs[j].job_id # job_id
         IN [jobs EXCEPT ![i] = [@ EXCEPT !.status = status, !.completed_at = t,
                                          !.last_error = IF status = "failed" THEN err ELSE @]]
    ELSE jobs

RECURSIVE RememberAll(_, _)
RememberAll(f, docs) ==
    IF docs = <<>> THEN f ELSE RememberAll(Remember(f, Head(docs).uid, Head(docs)), Tail(docs))


\* ------------------------------------------------------------------- Init
EmptyFn == [k \in {} |-> NoDoc]

NoRun ==
    [job_id |-> <<>>, job_type |-> "none", deployments |-> <<>>, i |-> 0,
     discovered |-> <<>>, pending |-> NoDoc, applications |-> <<>>]

InitWebhook ==
    /\ wh_secret = ""
    /\ wh_requests = <<>>
    /\ wh_result = [status |-> 0, body |-> "none"]
    /\ wh_input = [event_type |-> "none",
                   payload |-> [json |-> TRUE, repo_url |-> <<>>, commits |-> <<>>],
                   signature |-> <<>>]

\* no coroutine in flight, no loop started, an empty applications collection
InitTasks ==
    /\ tasks = <<>>
    /\ is_running = FALSE
    /\ collection = <<>>

InitStore ==
    /\ k8s_resources = <<>>
    /\ argocd_applications = <<>>
    /\ services = <<>>
    /\ service_health = <<>>
    /\ sync_jobs = <<>>
    /\ cluster_info = <<>>

InitRun ==
    /\ pc = "idle"
    /\ run = NoRun
    /\ now = 0
    /\ runs = 0
    /\ last_saved = [k8s |-> EmptyFn, app |-> EmptyFn, health |-> EmptyFn, info |-> EmptyFn]
    /\ disc_log = <<>>
    /\ health_log = [failed_at |-> 0, t |-> 0]

\* the cluster at start: orders running with its Service object, a pay
\* deployment whose pod template has no container, and both applications
InitCluster ==
    {Deployment("u1", SvcOrders, NsProd, 1, 1, 1), Deployment("u3", SvcPay, NsDev, 1, 1, 0),
     ServiceObj("u4", SvcOrders, NsProd)}

InitApps == {Application("a1", AppOrders, "Healthy"), Application("a2", AppPay, "Progressing")}

Init ==
    /\ cluster_resources = InitCluster
    /\ cluster_apps = InitApps
    /\ env_changes = 0
    /\ InitStore
    /\ InitRun
    /\ InitWebhook
    /\ InitTasks

\* ---------------------------------------------------------------- actions
\* the live cluster changes by one object: created, deleted, or replaced by an
\* object of the same kind, namespace and name (new status, or a new uid)
ClusterChange ==
    /\ env_changes < MaxEnvChanges
    /\ pc \in {"idle", "done"}
    /\ \E T \in ClusterStates :
          /\ T # cluster_resources
          /\ Cardinality(T \ cluster_resources) <= 1
          /\ Cardinality(cluster_resources \ T) <= 1
          /\ \A x \in cluster_resources \ T : \A y \in T \ cluster_resources :
                 x.kind = y.kind /\ x.namespace = y.namespace /\ x.name = y.name
          /\ cluster_resources' = T
    /\ env_changes' = env_changes + 1
    /\ UNCHANGED <<cluster_apps, storeVars, runVars, webhookVars, taskVars>>

ApplicationsChange ==
    /\ env_changes < MaxEnvChanges
    /\ pc \in {"idle", "done"}
    /\ \E T \in AppStates :
          /\ T # cluster_apps
          /\ Cardinality(T \ cluster_apps) <= 1
          /\ Cardinality(cluster_apps \ T) <= 1
          /\ \A x \in cluster_apps \ T : \A y \in T \ cluster_apps : x.name = y.name
          /\ cluster_apps' = T
    /\ env_changes' = env_changes + 1
    /\ UNCHANGED <<cluster_resources, storeVars, runVars, webhookVars, taskVars>>

\* full_sync up to the insert of its SyncJob
StartSync(job_type) ==
    /\ pc \in {"idle", "done"}
    /\ runs < MaxRuns
    /\ now' = now + 1
    /\ runs' = runs + 1
    /\ run' = [NoRun EXCEPT !.job_id = <<job_type, now'>>, !.job_type = job_type]
    /\ sync_jobs' = Append(sync_jobs, SyncJobDocument(<<job_type, now'>>, job_type, now'))
    /\ UNCHANGED <<k8s_resources, argocd_applications, services, service_health, cluster_info,
                   envVars, last_saved, disc_log, health_log, webhookVars, taskVars>>

FullSyncStart == StartSync("full_sync") /\ pc' = "cluster_info"

IncrementalSyncStart == StartSync("incremental_sync") /\ pc' = "resources"

SyncClusterInfo ==
    /\ pc = "cluster_info"
    /\ cluster_info' = sync_cluster_info(cluster_info, cluster_resources, cluster_apps, now)
    /\ last_saved' = [last_saved EXCEPT !.info =
            Remember(Remember(@, "k8s",
                ClusterInfoDocument("k8s", Cardinality({x \in cluster_resources : x.kind = "Deployment"}), now)),
                "argocd", ClusterInfoDocument("argocd", Cardinality(cluster_apps), now))]
    /\ pc' = "resources"
    /\ UNCHANGED <<k8s_resources, argocd_applications, services, service_health, sync_jobs,
                   envVars, run, now, runs, disc_log, health_log, webhookVars, taskVars>>

SyncK8sResources ==
    /\ pc = "resources"
    /\ k8s_resources' =
          IF run.job_type = "full_sync"
          THEN sync_k8s_resources(k8s_resources, cluster_resources, now)
          ELSE sync_k8s_resources_incremental(k8s_resources, sync_jobs, cluster_resources, now)
    /\ last_saved' = [last_saved EXCEPT !.k8s =
            RememberAll(@, [i \in 1..Len(PullNamespaces(cluster_resources, 1)) |->
                               K8sResourceDocument(PullNamespaces(cluster_resources, 1)[i], now)])]
    /\ pc' = "discover"
    /\ UNCHANGED <<argocd_applications, services, service_health, sync_jobs, cluster_info,
                   envVars, run, now, runs, disc_log, health_log, webhookVars, taskVars>>

\* discover_existing_services: the listing of all deployments
DiscoverList ==
    /\ pc = "discover"
    /\ run' = [run EXCEPT !.deployments = get_deployments(cluster_resources), !.i = 1,
                          !.discovered = <<>>, !.pending = NoDoc]
    /\ pc' = "disc_find"
    /\ UNCHANGED <<storeVars, envVars, now, runs, last_saved, disc_log, health_log, webhookVars, taskVars>>

\* one turn of the loop up to its insert: find_one, then _create_service_metadata
DiscoverFind ==
    /\ pc = "disc_find"
    /\ run.i <= Len(run.deployments)
    /\ LET deployment == run.deployments[run.i]
           existing == find_service(services, deployment.name, deployment.namespace)
           metadata == create_service_metadata(deployment, now)
       IN IF existing \/ metadata = NoDoc
          THEN /\ run' = [run EXCEPT !.i = @ + 1]
               /\ pc' = "disc_find"
          ELSE /\ run' = [run EXCEPT !.pending = metadata]
               /\ pc' = "disc_insert"
    /\ UNCHANGED <<storeVars, envVars, now, runs, last_saved, disc_log, health_log, webhookVars, taskVars>>

\* insert_one(service_metadata)
DiscoverInsert ==
    /\ pc = "disc_insert"
    /\ services' = Append(services, run.pending[1])
    /\ run' = [run EXCEPT !.discovered = Append(@, run.pending[1]), !.pending = NoDoc, !.i = @ + 1]
    /\ pc' = "disc_find"
    /\ UNCHANGED <<k8s_resources, argocd_applications, service_health, sync_jobs, cluster_info,
                   envVars, now, runs, last_saved, disc_log, health_log, webhookVars, taskVars>>

\* discover_existing_services returns discovered_services
DiscoverReturn ==
    /\ pc = "disc_find"
    /\ run.i > Len(run.deployments)
    /\ disc_log' = Append(disc_log, [deployments |-> run.deployments, discovered |-> run.discovered])
    /\ pc' = "update_existing"
    /\ UNCHANGED <<storeVars, envVars, run, now, runs, last_saved, health_log, webhookVars, taskVars>>

UpdateExistingServices ==
    /\ pc = "update_existing"
    /\ services' = update_existing_services(services, cluster_resources, now)
    /\ pc' = "apps"
    /\ UNCHANGED <<k8s_resources, argocd_applications, service_health, sync_jobs, cluster_info,
                   envVars, run, now, runs, last_saved, disc_log, health_log, webhookVars, taskVars>>

SyncArgoCDApplications ==
    /\ pc = "apps"
    /\ LET applications == get_applications(cluster_apps)
       IN /\ argocd_applications' =
                IF run.job_type = "full_sync"
                THEN sync_argocd_applications(argocd_applications, applications, now)
                ELSE sync_argocd_applications_incremental(argocd_applications, applications, now)
          /\ run' = [run EXCEPT !.applications = applications]
          /\ last_saved' = [last_saved EXCEPT !.app =
                RememberAll(@, [i \in 1..Len(applications) |->
                                   ArgoCDApplicationDocument(applications[i], now)])]
    /\ pc' = "health"
    /\ UNCHANGED <<k8s_resources, services, service_health, sync_jobs, cluster_info,
                   envVars, now, runs, disc_log, health_log, webhookVars, taskVars>>

\* _update_service_health; the save of at most one service raises
UpdateServiceHealth ==
    /\ pc = "health"
    /\ \E failed_at \in 0..Len(services) :
          /\ service_health' = update_service_health(service_health, services, 1, failed_at,
                                                     k8s_resources, argocd_applications, now)
          /\ health_log' = [failed_at |-> failed_at, t |-> now]
          /\ last_saved' = [last_saved EXCEPT !.health =
                [k \in DOMAIN @ \cup {<<services[i].service_name, services[i].namespace>> :
                                          i \in SavedServices(services, failed_at)} |->
                    IF \E i \in SavedServices(services, failed_at) :
                           k = <<services[i].service_name, services[i].namespace>>
                    THEN LET i == CHOOSE i \in SavedServices(services, failed_at) :
                                     k = <<services[i].service_name, services[i].namespace>>
                         IN ServiceHealthDocument(services[i], k8s_resources, argocd_applications, now)
                    ELSE @[k]]]
    /\ pc' = "finalize"
    /\ UNCHANGED <<k8s_resources, argocd_applications, services, sync_jobs, cluster_info,
                   envVars, run, now, runs, disc_log, webhookVars, taskVars>>

\* the update_one that closes the job
FinalizeJob ==
    /\ pc = "finalize"
    /\ sync_jobs' = finalize_job(sync_jobs, run.job_id, "completed", now, NoError)
    /\ pc' = "done"
    /\ UNCHANGED <<k8s_resources, argocd_applications, services, service_health, cluster_info,
                   envVars, run, now, runs, last_saved, disc_log, health_log, webhookVars, taskVars>>

Next ==
    \/ ClusterChange
    \/ ApplicationsChange
    \/ FullSyncStart
    \/ IncrementalSyncStart
    \/ SyncClusterInfo
    \/ SyncK8sResources
    \/ DiscoverList
    \/ DiscoverFind
    \/ DiscoverInsert
    \/ DiscoverReturn
    \/ UpdateExistingServices
    \/ SyncArgoCDApplications
    \/ UpdateServiceHealth
    \/ FinalizeJob

Spec == Init /\ [][Next]_vars


\* ================================================================= claims
AppUids == {argocd_applications[i].uid : i \in 1..Len(argocd_applications)}
ResourceUids == {k8s_resources[i].uid : i \in 1..Len(k8s_resources)}
PulledAppUids == {run.applications[i].uid : i \in 1..Len(run.applications)}
CountByUid(coll, uid) == Cardinality({i \in 1..Len(coll) : coll[i].uid = uid})
CountByService(coll, name, ns) ==
    Cardinality({i \in 1..Len(coll) : coll[i].service_name = name /\ coll[i].namespace = ns})

\* C1: when a full sync has completed, the stored application set is exactly
\* the set that run pulled; stored applications absent from the pull are gone.
C1_FullSyncPrunes ==
    (pc = "done" /\ run.job_type = "full_sync") => AppUids = PulledAppUids

\* C2: no step of an incremental sync removes a stored application or
\* cluster-resource identity: every uid stored before the step is stored after it.
C2_IncrementalNeverPrunes ==
    [][(run.job_type = "incremental_sync" /\ pc \notin {"idle", "done"})
          => (AppUids \subseteq AppUids' /\ ResourceUids \subseteq ResourceUids')]_vars

\* C2 witness: an incremental sync has finished and an application that its
\* pull no longer returned is still stored.
C2_Witness ==
    /\ pc = "done"
    /\ run.job_type = "incremental_sync"
    /\ \E uid \in AppUids : uid \notin PulledAppUids

\* C3: for every key saved at least once, the collection holds exactly one
\* record with that key, equal to the last document saved under it (resources
\* and applications by uid, health by (service_name, namespace), cluster info
\* by cluster type).
C3_IdempotentUpsert ==
    /\ \A uid \in DOMAIN last_saved.k8s :
          /\ CountByUid(k8s_resources, uid) = 1
          /\ \E i \in 1..Len(k8s_resources) : k8s_resources[i] = last_saved.k8s[uid]
    /\ \A uid \in DOMAIN last_saved.app :
          /\ CountByUid(argocd_applications, uid) = 1
          /\ \E i \in 1..Len(argocd_applications) : argocd_applications[i] = last_saved.app[uid]
    /\ \A k \in DOMAIN last_saved.health :
          /\ CountByService(service_health, k[1], k[2]) = 1
          /\ \E i \in 1..Len(service_health) : service_health[i] = last_saved.health[k]
    /\ \A ct \in DOMAIN last_saved.info :
          /\ Cardinality({i \in 1..Len(cluster_info) : cluster_info[i].cluster_type = ct}) = 1
          /\ \E i \in 1..Len(cluster_info) : cluster_info[i] = last_saved.info[ct]

\* C3 witness: two sync runs have completed and the resource u1, saved by
\* both, is stored once with the replica count of the second save.
C3_Witness ==
    /\ pc = "done"
    /\ Cardinality({i \in 1..Len(sync_jobs) : sync_jobs[i].status = "completed"}) >= 2
    /\ "u1" \in DOMAIN last_saved.k8s
    /\ last_saved.k8s["u1"].replicas = 2
    /\ last_saved.k8s["u1"].last_event_time = now
    /\ CountByUid(k8s_resources, "u1") = 1

\* the last two discovery passes listed the same deployments
SameListTwice ==
    /\ pc = "update_existing"
    /\ Len(disc_log) >= 2
    /\ disc_log[Len(disc_log)].deployments = disc_log[Len(disc_log) - 1].deployments

ArgoCDAppStatus == {"Healthy", "Progressing", "Degraded", "Suspended", "Unknown"}

\* the replica counts a stored status payload can carry
ReplicaCounts == {Absent} \cup 0..MaxReplicas

StoredDeployments(uid) ==
    {K8sResourceDocument(Deployment(uid, SvcOrders, NsProd, r, rr, 1), 0) :
        r \in ReplicaCounts, rr \in ReplicaCounts}

\* stores earlier syncs can have left: no orders deployment, one, or the
\* record of a deleted one followed by the record of its successor, each
\* possibly after the record of the Service object of the same name
StoredResources ==
    LET deployments ==
            {<<>>} \cup {<<d>> : d \in StoredDeployments("u1")}
            \cup {<<d, e>> : d \in StoredDeployments("u1"), e \in StoredDeployments("u2")}
    IN deployments
       \cup {<<K8sResourceDocument(ServiceObj("u4", SvcOrders, NsProd), 0)>> \o ds : ds \in deployments}

StoredApplications ==
    {<<>>} \cup {<<ArgoCDApplicationDocument(Application("a1", AppOrders, h), 0)>> : h \in ArgoCDAppStatus}

OrdersService == create_service_metadata(Deployment("u1", SvcOrders, NsProd, 1, 1, 1), 0)[1]
PayService == create_service_metadata(Deployment("u3", SvcPay, NsDev, 1, 1, 1), 0)[1]

StoredServices == {<<OrdersService>>, <<OrdersService, PayService>>, <<PayService, OrdersService>>}

\* a full sync about to evaluate health
InitHealth ==
    /\ cluster_resources = InitCluster
    /\ cluster_apps = InitApps
    /\ env_changes = 0
    /\ k8s_resources \in StoredResources
    /\ argocd_applications \in StoredApplications
    /\ services \in StoredServices
    /\ service_health = <<>>
    /\ sync_jobs = <<SyncJobDocument(<<"full_sync", 1>>, "full_sync", 1)>>
    /\ cluster_info = <<>>
    /\ pc = "health"
    /\ run = [NoRun EXCEPT !.job_id = <<"full_sync", 1>>, !.job_type = "full_sync"]
    /\ now = 1
    /\ runs = 1
    /\ last_saved = [k8s |-> EmptyFn, app |-> EmptyFn, health |-> EmptyFn, info |-> EmptyFn]
    /\ disc_log = <<>>
    /\ health_log = [failed_at |-> 0, t |-> 0]
    /\ InitWebhook
    /\ InitTasks

NextHealth ==
    \/ UpdateServiceHealth
    \/ FinalizeJob

SpecHealth == InitHealth /\ [][NextHealth]_vars

\* the health records written by the pass that just ended
FreshHealth == {h \in Range(service_health) : h.last_health_check = now}

\* C4: every health record carries the verdict of its two statuses: healthy
\* iff k8s is running and GitOps is Healthy; otherwise unknown iff k8s is
\* deploying or unknown or GitOps is Progressing or Unknown; otherwise
\* unhealthy. A deploying service is never unhealthy.
C4_HealthVerdict ==
    \A h \in Range(service_health) :
        LET isHealthy == h.k8s_status = "running" /\ h.argocd_status = "Healthy"
            isUnknown == h.k8s_status \in {"deploying", "unknown"}
                         \/ h.argocd_status \in {"Progressing", "Unknown"}
        IN /\ h.overall_status = "healthy" <=> isHealthy
           /\ h.overall_status = "unknown" <=> (~isHealthy /\ isUnknown)
           /\ h.overall_status = "unhealthy" <=> (~isHealthy /\ ~isUnknown)
           /\ h.k8s_status = "deploying" => h.overall_status # "unhealthy"

\* C4 witness: a record with k8s deploying and GitOps Healthy has the verdict unknown.
C4_Witness ==
    \E h \in Range(service_health) :
        h.k8s_status = "deploying" /\ h.argocd_status = "Healthy" /\ h.overall_status = "unknown"

\* the place of a position of the sync run in the order of full_sync
StepRank(where) ==
    CASE where = "cluster_info" -> 1
      [] where = "resources" -> 2
      [] where \in {"discover", "disc_find", "disc_insert", "update_existing"} -> 3
      [] where = "apps" -> 4
      [] where = "health" -> 5
      [] OTHER -> 6

\* the health records written by the health pass of the sync in flight
\* read the records of the cluster objects, written at the time t of this sync
HealthReadsThisTick ==
    \A h \in Range(service_health) :
        h.last_health_check = now =>
            /\ (\E x \in cluster_resources :
                    x.kind = "Deployment" /\ x.name = h.service_name /\ x.namespace = h.namespace)
               => /\ h.k8s_details # NoDoc
                  /\ (\E x \in cluster_resources : x.uid = h.k8s_details[1].uid)
                     => h.k8s_details[1].last_event_time = now
            /\ (\E a \in cluster_apps : ContainsCI(a.name, h.service_name))
               => /\ h.argocd_details # NoDoc
                  /\ (\E a \in cluster_apps : a.uid = h.argocd_details[1].uid)
                     => h.argocd_details[1].last_sync_time = now

C23_IncrementalEqualsFull ==
    (pc = "finalize" /\ run.job_type = "incremental_sync") =>
        /\ k8s_resources = sync_k8s_resources(k8s_resources, cluster_resources, now)
        /\ argocd_applications =
              sync_argocd_applications(argocd_applications, get_applications(cluster_apps), now)
        /\ cluster_info = sync_cluster_info(cluster_info, cluster_resources, cluster_apps, now)

\* C28: when the health pass of a full sync is done, a service whose fresh
\* health record says k8s running has a Deployment in the cluster as that
\* sync pulled it.
C28_HealthFollowsCluster ==
    (pc = "finalize" /\ run.job_type = "full_sync") =>
        \A h \in Range(service_health) :
            (h.last_health_check = now /\ h.k8s_status = "running")
            => \E x \in cluster_resources :
                  x.kind = "Deployment" /\ x.name = h.service_name /\ x.namespace = h.namespace

\* C29: a health record of a service whose k8s status is running and for
\* which no stored application matched (GitOps status "unknown", the value
\* _get_argocd_service_status returns then) has the verdict unknown.
C29_NoApplicationIsUnknown ==
    \A h \in Range(service_health) :
        (h.k8s_status = "running" /\ h.argocd_status = "unknown") => h.overall_status = "unknown"

\* the stored Deployment records of a service, by position
MatchingDeployments(name, ns) ==
    {i \in 1..Len(k8s_resources) :
        /\ k8s_resources[i].name = name
        /\ k8s_resources[i].namespace = ns
        /\ k8s_resources[i].resource_type = "Deployment"}

C6_PerServiceIsolation ==
    (pc = "finalize" /\ health_log.failed_at # 0) =>
        \A i \in 1..Len(services) :
            i # health_log.failed_at =>
                \E h \in FreshHealth :
                    h.service_name = services[i].service_name /\ h.namespace = services[i].namespace


\* ---------------------------------------------------- webhook fast path
\* file paths and repository urls are sequences of tokens; "/" is a token
RECURSIVE Split(_)
\* str.split('/')
Split(path) ==
    IF path = <<>> THEN << <<>> >>
    ELSE IF Head(path) = "/" THEN << <<>> >> \o Split(Tail(path))
    ELSE LET rest == Split(Tail(path))
         IN << <<Head(path)>> \o rest[1] >> \o Tail(rest)

\* file_path.startswith('apps/')
StartsWithApps(path) == Len(path) >= 2 /\ path[1] = "apps" /\ path[2] = "/"

\* 'repository_b_ci_cd_fpt_repob_devops' in repo_url
IsManifestsRepo(repo_url) ==
    \E i \in 1..Len(repo_url) : repo_url[i] = "repository_b_ci_cd_fpt_repob_devops"

\* 'sha256=' + hmac.new(secret, payload, sha256).hexdigest(), taken as collision free
Hmac(secret, payload) == <<"sha256=", secret, payload>>

\* a variant that accepts every signature
verify_webhook_signature_any(secret, payload, signature) == TRUE

\* GitHubWebhookHandler.verify_webhook_signature
verify_webhook_signature(secret, payload, signature) ==
    IF secret = "" THEN TRUE
    ELSE signature = Hmac(secret, payload)

\* the inner loop of handle_push_event over the changed files of one commit
RECURSIVE ScanFiles(_, _)
ScanFiles(files, acc) ==
    IF files = <<>> THEN acc
    ELSE LET file_path == Head(files)
             parts == Split(file_path)
         IN IF StartsWithApps(file_path)
            THEN ScanFiles(Tail(files),
                     [apps_changed |-> TRUE,
                      new_apps |-> IF Len(parts) >= 2 /\ parts[2] \notin Range(acc.new_apps)
                                   THEN Append(acc.new_apps, parts[2])
                                   ELSE acc.new_apps])
            ELSE ScanFiles(Tail(files), acc)

\* the loop of handle_push_event over the commits
RECURSIVE ScanCommits(_, _)
ScanCommits(commits, acc) ==
    IF commits = <<>> THEN acc
    ELSE ScanCommits(Tail(commits), ScanFiles(Head(commits).added \o Head(commits).modified, acc))

\* GitHubWebhookHandler.trigger_argocd_sync: the request it posts
trigger_argocd_sync(app_name) ==
    IF app_name # <<>> THEN [op |-> "sync", app |-> app_name]
    ELSE [op |-> "sync_all", app |-> <<>>]

\* GitHubWebhookHandler.refresh_applicationset: the request it posts
refresh_applicationset == [op |-> "refresh", app |-> <<>>]

\* GitHubWebhookHandler.handle_push_event: its result and the requests it posts
handle_push_event(payload) ==
    IF ~IsManifestsRepo(payload.repo_url) THEN [success |-> FALSE, requests |-> <<>>]
    ELSE LET scan == ScanCommits(payload.commits, [apps_changed |-> FALSE, new_apps |-> <<>>])
         IN IF scan.apps_changed
            THEN [success |-> TRUE,
                  requests |-> <<refresh_applicationset>>
                               \o [i \in 1..Len(scan.new_apps) |-> trigger_argocd_sync(scan.new_apps[i])]]
            ELSE [success |-> FALSE, requests |-> <<>>]

\* the try block of handle_webhook: what it returns or raises, and the requests posted
handle_webhook_try(secret, event_type, payload, signature) ==
    IF ~verify_webhook_signature(secret, payload, signature)
    THEN [class |-> "HTTPException", status |-> 401, body |-> "Invalid webhook signature",
          requests |-> <<>>]
    ELSE IF ~payload.json
    THEN [class |-> "JSONDecodeError", status |-> 0, body |-> "error", requests |-> <<>>]
    ELSE IF event_type = "push"
    THEN LET r == handle_push_event(payload)
         IN [class |-> "return", status |-> 200,
             body |-> IF r.success THEN "success" ELSE "ignored", requests |-> r.requests]
    ELSE IF event_type = "ping"
    THEN [class |-> "return", status |-> 200, body |-> "success", requests |-> <<>>]
    ELSE [class |-> "return", status |-> 200, body |-> "ignored", requests |-> <<>>]

\* GitHubWebhookHandler.handle_webhook with its except clauses: JSONDecodeError
\* becomes a 400, every other Exception raised in the try block a 500
handle_webhook(secret, event_type, payload, signature) ==
    LET r == handle_webhook_try(secret, event_type, payload, signature)
    IN IF r.class = "return" THEN r
       ELSE IF r.class = "JSONDecodeError"
       THEN [r EXCEPT !.class = "HTTPException", !.status = 400, !.body = "Invalid JSON payload"]
       ELSE [r EXCEPT !.class = "HTTPException", !.status = 500]

\* inputs
PathOrders == <<"apps", "/", "orders", "/", "deployment.yaml">>
PathPay == <<"apps", "/", "pay", "/", "deployment.yaml">>
PathAppsReadme == <<"apps", "/", "README.md">>
PathDocs == <<"docs", "/", "x.md">>
AddedLists == {<<>>, <<PathOrders>>, <<PathPay>>, <<PathAppsReadme>>, <<PathDocs>>}
ModifiedLists == {<<>>, <<PathOrders>>, <<PathPay>>}
Commits == {[added |-> a, modified |-> m] : a \in AddedLists, m \in ModifiedLists}

RepoB == <<"https://github.com/acme/", "repository_b_ci_cd_fpt_repob_devops", ".git">>
RepoOther == <<"https://github.com/acme/", "repository_a", ".git">>
Repos == {RepoB, RepoOther}

\* a request body that is not JSON
BadJson == [json |-> FALSE, repo_url |-> <<>>, commits |-> <<>>]

\* the push payload GitHub is assembling for a repository
NewDelivery(repo_url) ==
    [event_type |-> "none", payload |-> [json |-> TRUE, repo_url |-> repo_url, commits |-> <<>>],
     signature |-> <<>>]

NotHandled == [status |-> 0, body |-> "none"]

Secrets == {"", "s3cret"}

\* the X-Hub-Signature-256 header: missing, right, or computed with another key
Signatures(payload) == {<<>>, Hmac("s3cret", payload), Hmac("guess", payload)}

InitSyncIdle ==
    /\ cluster_resources = InitCluster
    /\ cluster_apps = InitApps
    /\ env_changes = 0
    /\ InitStore
    /\ InitRun

\* get_webhook_handler: the secret comes from the environment
InitWebhookSpec ==
    /\ InitSyncIdle
    /\ InitTasks
    /\ wh_secret \in Secrets
    /\ wh_requests = <<>>
    /\ wh_result = NotHandled
    /\ \E repo_url \in Repos : wh_input = NewDelivery(repo_url)

\* one more commit joins the 'commits' list of the payload to be delivered
GitHubCommit ==
    /\ wh_result = NotHandled
    /\ Len(wh_input.payload.commits) < MaxCommits
    /\ \E commit \in Commits :
          wh_input' = [wh_input EXCEPT !.payload.commits = Append(@, commit)]
    /\ UNCHANGED <<wh_secret, wh_requests, wh_result, syncVars, taskVars>>

\* github_webhook_endpoint: one call of handle_webhook, to its response
HandleWebhook ==
    /\ wh_result = NotHandled
    /\ \E event_type \in {"push", "ping", "issues"}, payload \in {wh_input.payload, BadJson} :
          \E signature \in Signatures(payload) :
              LET r == handle_webhook(wh_secret, event_type, payload, signature)
              IN /\ wh_input' = [event_type |-> event_type, payload |-> payload,
                                 signature |-> signature]
                 /\ wh_requests' = r.requests
                 /\ wh_result' = [status |-> r.status, body |-> r.body]
    /\ UNCHANGED <<wh_secret, syncVars, taskVars>>

\* the response is out; GitHub starts the payload of the next delivery
NextDelivery ==
    /\ wh_result # NotHandled
    /\ \E repo_url \in Repos : wh_input' = NewDelivery(repo_url)
    /\ wh_requests' = <<>>
    /\ wh_result' = NotHandled
    /\ UNCHANGED <<wh_secret, syncVars, taskVars>>

NextWebhook == GitHubCommit \/ HandleWebhook \/ NextDelivery

SpecWebhook == InitWebhookSpec /\ [][NextWebhook]_vars

\* the call handled last carried a wrong or missing signature for the configured secret
BadSignature ==
    /\ wh_result # NotHandled
    /\ wh_secret # ""
    /\ wh_input.signature # Hmac(wh_secret, wh_input.payload)

\* the call handled last was a validly signed push on the manifests repository
SignedManifestsPush ==
    /\ wh_result # NotHandled
    /\ wh_secret # ""
    /\ wh_input.signature = Hmac(wh_secret, wh_input.payload)
    /\ wh_input.event_type = "push"
    /\ wh_input.payload.json
    /\ IsManifestsRepo(wh_input.payload.repo_url)

ChangedFiles ==
    UNION {Range(wh_input.payload.commits[i].added) \cup Range(wh_input.payload.commits[i].modified) :
              i \in 1..Len(wh_input.payload.commits)}

\* the directories directly under apps/ that hold an added or modified file
ChangedAppDirs ==
    {<<p[3]>> : p \in {q \in ChangedFiles : Len(q) >= 5 /\ q[1] = "apps" /\ q[2] = "/" /\ q[4] = "/"}}

\* C7: a call with a wrong or missing signature ends with HTTP 401.
C7_BadSignatureIs401 == BadSignature => wh_result.status = 401

\* C8: a call with a wrong or missing signature posts no request to ArgoCD,
\* whatever the event type and payload.
C8_BadSignatureTriggersNothing == BadSignature => wh_requests = <<>>

\* C8 witness: a push on the manifests repository with a file of an
\* application directory, missing its signature, was handled and posted nothing.
C8_Witness ==
    /\ BadSignature
    /\ wh_input.event_type = "push"
    /\ wh_input.payload.json
    /\ IsManifestsRepo(wh_input.payload.repo_url)
    /\ ChangedAppDirs # {}
    /\ wh_requests = <<>>

\* C9: a validly signed push on the manifests repository posts exactly one
\* sync per application directory under apps/ with an added or modified file,
\* no sync for anything else and no sync of all applications; when no changed
\* file lies under apps/, it posts nothing.
C9_TargetedSync ==
    SignedManifestsPush =>
        /\ \A a \in ChangedAppDirs :
              Cardinality({i \in 1..Len(wh_requests) :
                              wh_requests[i].op = "sync" /\ wh_requests[i].app = a}) = 1
        /\ \A i \in 1..Len(wh_requests) :
              /\ wh_requests[i].op # "sync_all"
              /\ wh_requests[i].op = "sync" => wh_requests[i].app \in ChangedAppDirs
        /\ (\A p \in ChangedFiles : ~(p[1] = "apps" /\ p[2] = "/")) => wh_requests = <<>>


\* --------------------------------------- discovery passes that overlap
\* the locals of one discovery pass: discover_existing_services lists every
\* namespace, discover_services_by_namespace the one it is given
DiscoveryTask(kind, namespace) ==
    [kind |-> kind, namespace |-> namespace, pc |-> "list", deployments |-> <<>>, i |-> 0,
     pending |-> NoDoc]

\* both deployments carry a container, so discovery has a record to write for each
DiscoveryCluster ==
    {Deployment("u1", SvcOrders, NsProd, 1, 1, 1), Deployment("u3", SvcPay, NsDev, 1, 1, 1)}

InitDiscovery ==
    /\ cluster_resources = DiscoveryCluster
    /\ cluster_apps = InitApps
    /\ env_changes = 0
    /\ InitStore
    /\ InitRun
    /\ InitWebhook
    /\ InitTasks

\* a caller starts a pass: a sync run reaching _discover_existing_services,
\* or a call of discover_services_by_namespace
StartDiscovery ==
    /\ Len(tasks) < MaxPasses
    /\ \E t \in {DiscoveryTask("discover_existing_services", "")}
                \cup {DiscoveryTask("discover_services_by_namespace", ns) : ns \in Range(Namespaces)} :
          tasks' = Append(tasks, t)
    /\ UNCHANGED <<syncVars, webhookVars, is_running, collection>>

\* await self.k8s_client.get_deployments(...)
DiscoveryList(p) ==
    /\ tasks[p].pc = "list"
    /\ tasks' = [tasks EXCEPT ![p] =
          [@ EXCEPT !.deployments =
                        IF tasks[p].kind = "discover_existing_services"
                        THEN get_deployments(cluster_resources)
                        ELSE ListKind(cluster_resources, "Deployment", tasks[p].namespace),
                    !.i = 1, !.pc = "find"]]
    /\ UNCHANGED <<syncVars, webhookVars, is_running, collection>>

\* await find_one, then _create_service_metadata, up to the await of insert_one
DiscoveryFind(p) ==
    /\ tasks[p].pc = "find"
    /\ tasks[p].i <= Len(tasks[p].deployments)
    /\ LET deployment == tasks[p].deployments[tasks[p].i]
           existing == find_service(services, deployment.name, deployment.namespace)
           metadata == create_service_metadata(deployment, now)
       IN tasks' = [tasks EXCEPT ![p] =
             IF existing \/ metadata = NoDoc
             THEN [@ EXCEPT !.i = @ + 1]
             ELSE [@ EXCEPT !.pending = metadata, !.pc = "insert"]]
    /\ UNCHANGED <<syncVars, webhookVars, is_running, collection>>

\* await insert_one(service_metadata)
DiscoveryInsert(p) ==
    /\ tasks[p].pc = "insert"
    /\ services' = Append(services, tasks[p].pending[1])
    /\ tasks' = [tasks EXCEPT ![p] = [@ EXCEPT !.pending = NoDoc, !.i = @ + 1, !.pc = "find"]]
    /\ UNCHANGED <<k8s_resources, argocd_applications, service_health, sync_jobs, cluster_info,
                   envVars, runVars, webhookVars, is_running, collection>>

\* return discovered_services
DiscoveryReturn(p) ==
    /\ tasks[p].pc = "find"
    /\ tasks[p].i > Len(tasks[p].deployments)
    /\ tasks' = [tasks EXCEPT ![p] = [@ EXCEPT !.pc = "returned"]]
    /\ UNCHANGED <<syncVars, webhookVars, is_running, collection>>

NextDiscovery ==
    \/ StartDiscovery
    \/ \E p \in 1..Len(tasks) :
          DiscoveryList(p) \/ DiscoveryFind(p) \/ DiscoveryInsert(p) \/ DiscoveryReturn(p)

SpecDiscovery == InitDiscovery /\ [][NextDiscovery]_vars

\* C11: in every reachable state the services collection holds at most one
\* ServiceMetadata record per (service_name, namespace), also while two
\* discovery passes interleave at their store calls.
C11_ServiceIdentityUnique ==
    \A i, j \in 1..Len(services) :
        (services[i].service_name = services[j].service_name
         /\ services[i].namespace = services[j].namespace) => i = j


\* ------------------------------------------- one full sync, end to end
\* an application whose name holds the orders service name as well
AppPortalOrders == <<"p", "O", "R">>

E2EResources ==
    {Deployment("u1", SvcOrders, NsProd, r, ready, c) :
         r \in 1..MaxReplicas, ready \in 0..MaxReplicas, c \in 0..1}

E2EApplications ==
    {Application("a1", AppOrders, h) : h \in {"Healthy", "Degraded"}}
    \cup {Application("a2", AppPay, "Progressing"), Application("a3", AppPortalOrders, "Healthy")}

\* the orders deployment in some state, next to the pay deployment
E2EClusters ==
    {{d, Deployment("u3", SvcPay, NsDev, 1, 1, 1)} : d \in {x \in E2EResources : x.readyReplicas <= x.replicas}}

E2EApps == {S \in SUBSET E2EApplications : ValidApps(S)}

InitE2E ==
    /\ cluster_resources \in E2EClusters
    /\ cluster_apps \in E2EApps
    /\ env_changes = 0
    /\ InitStore
    /\ InitRun
    /\ InitWebhook
    /\ InitTasks

NextE2E ==
    \/ FullSyncStart
    \/ SyncClusterInfo
    \/ SyncK8sResources
    \/ DiscoverList
    \/ DiscoverFind
    \/ DiscoverInsert
    \/ DiscoverReturn
    \/ UpdateExistingServices
    \/ SyncArgoCDApplications
    \/ UpdateServiceHealth
    \/ FinalizeJob

SpecE2E == InitE2E /\ [][NextE2E]_vars

\* the first full sync on the empty store has returned
FirstFullSyncDone == pc = "done" /\ runs = 1 /\ run.job_type = "full_sync"

\* a deployment with all its replicas ready and a Healthy application named after it
ReadyWithHealthyApp(d) ==
    /\ d.kind = "Deployment"
    /\ d.replicas = d.readyReplicas
    /\ d.replicas > 0
    /\ \E a \in cluster_apps : ContainsCI(a.name, d.name) /\ a.health = "Healthy"

\* what the sync is to leave for the deployment
E2EOutcome(d) ==
    /\ CountByService(services, d.name, d.namespace) >= 1
    /\ \E i \in 1..Len(service_health) :
          /\ service_health[i].service_name = d.name
          /\ service_health[i].namespace = d.namespace
          /\ service_health[i].overall_status = "healthy"
    /\ Len(sync_jobs) = 1
    /\ sync_jobs[1].status = "completed"
    /\ sync_jobs[1].last_error = NoError

FirstByJobId(jobs, job_id) ==
    IF \E i \in 1..Len(jobs) : jobs[i].job_id = job_id
    THEN CHOOSE i \in 1..Len(jobs) :
            jobs[i].job_id = job_id /\ \A j \in 1..(i - 1) : jobs[j].job_id # job_id
    ELSE 0

\* one whole pass of discover_existing_services over the listed deployments
RECURSIVE discover_services(_, _, _)
discover_services(svcs, deployments, t) ==
    IF deployments = <<>> THEN svcs
    ELSE LET deployment == Head(deployments)
             metadata == create_service_metadata(deployment, t)
         IN IF find_service(svcs, deployment.name, deployment.namespace) \/ metadata = NoDoc
            THEN discover_services(svcs, Tail(deployments), t)
            ELSE discover_services(Append(svcs, metadata[1]), Tail(deployments), t)

\* the steps full_sync and incremental_sync await between the insert of the
\* SyncJob and its finalization
StepsOf(job_type) ==
    IF job_type = "full_sync" THEN {"cluster_info", "resources", "discover", "apps", "health"}
    ELSE {"resources", "discover", "apps", "health"}

\* the locals of one call of full_sync / incremental_sync; job_id is the job
\* type and datetime.now() to the second. step_failed names the step that
\* met an exception, store_error tells that a sync_jobs call raised, hit is
\* the row the run's update_one wrote
SyncTask(job_type, t) ==
    [kind |-> job_type, pc |-> "insert", job_id |-> <<job_type, t>>, step_failed |-> "none",
     store_error |-> FALSE, hit |-> 0]

JobsCluster == {Deployment("u1", SvcOrders, NsProd, 1, 1, 1)}
JobsApps == {Application("a1", AppOrders, "Healthy")}

InitJobs ==
    /\ cluster_resources = JobsCluster
    /\ cluster_apps = JobsApps
    /\ env_changes = 0
    /\ InitStore
    /\ InitRun
    /\ InitWebhook
    /\ InitTasks

\* a second passes on the wall clock
Tick ==
    /\ now < MaxClock
    /\ now' = now + 1
    /\ UNCHANGED <<storeVars, envVars, pc, run, runs, last_saved, disc_log, health_log,
                   webhookVars, taskVars>>

\* a caller awaits full_sync() or incremental_sync(): job_id is formed
SyncCall(job_type) ==
    /\ Len(tasks) < MaxRuns
    /\ tasks' = Append(tasks, SyncTask(job_type, now))
    /\ UNCHANGED <<syncVars, webhookVars, is_running, collection>>

FullSyncCall == SyncCall("full_sync")

IncrementalSyncCall == SyncCall("incremental_sync")

\* await self.sync_jobs.insert_one(sync_job.dict()), outside the try block:
\* an exception of the store leaves full_sync
JobInsert(p) ==
    /\ tasks[p].pc = "insert"
    /\ \E ok \in BOOLEAN :
          IF ok
          THEN /\ sync_jobs' = Append(sync_jobs, SyncJobDocument(tasks[p].job_id, tasks[p].kind, now))
               /\ tasks' = [tasks EXCEPT ![p] = [@ EXCEPT !.pc = "steps"]]
          ELSE /\ sync_jobs' = sync_jobs
               /\ tasks' = [tasks EXCEPT ![p] = [@ EXCEPT !.pc = "raised", !.store_error = TRUE]]
    /\ UNCHANGED <<k8s_resources, argocd_applications, services, service_health, cluster_info,
                   envVars, runVars, webhookVars, is_running, collection>>


\* the try block of full_sync / incremental_sync up to the finalization. Every
\* step has its own try/except, which logs the exception it meets and
\* returns: the step named failed wrote nothing, the run goes on
SyncStepsAmong(p, failing) ==
    /\ tasks[p].pc = "steps"
    /\ \E failed \in {"none"} \cup failing :
          LET ran(step) == step \in StepsOf(tasks[p].kind) /\ step # failed
              resources == IF ~ran("resources") THEN k8s_resources
                           ELSE IF tasks[p].kind = "full_sync"
                           THEN sync_k8s_resources(k8s_resources, cluster_resources, now)
                           ELSE sync_k8s_resources_incremental(k8s_resources, sync_jobs,
                                                               cluster_resources, now)
              svcs == IF ~ran("discover") THEN services
                      ELSE update_existing_services(
                               discover_services(services, get_deployments(cluster_resources), now),
                               cluster_resources, now)
              apps == IF ~ran("apps") THEN argocd_applications
                      ELSE IF tasks[p].kind = "full_sync"
                      THEN sync_argocd_applications(argocd_applications,
                                                    get_applications(cluster_apps), now)
                      ELSE sync_argocd_applications_incremental(argocd_applications,
                                                                get_applications(cluster_apps), now)
          IN /\ cluster_info' = IF ran("cluster_info")
                                THEN sync_cluster_info(cluster_info, cluster_resources, cluster_apps, now)
                                ELSE cluster_info
             /\ k8s_resources' = resources
             /\ services' = svcs
             /\ argocd_applications' = apps
             /\ service_health' = IF ran("health")
                                  THEN update_service_health(service_health, svcs, 1, 0, resources, apps, now)
                                  ELSE service_health
             /\ tasks' = [tasks EXCEPT ![p] = [@ EXCEPT !.pc = "finalize", !.step_failed = failed]]
    /\ UNCHANGED <<sync_jobs, envVars, runVars, webhookVars, is_running, collection>>

\* the steps of a run, any one of which may meet an exception
SyncSteps(p) == SyncStepsAmong(p, StepsOf(tasks[p].kind))

\* update_one({"job_id": job_id}, status completed) at the end of the try
\* block; an exception of the store leads to the except block
JobCompleted(p) ==
    /\ tasks[p].pc = "finalize"
    /\ \E ok \in BOOLEAN :
          IF ok
          THEN /\ sync_jobs' = finalize_job(sync_jobs, tasks[p].job_id, "completed", now, NoError)
               /\ tasks' = [tasks EXCEPT ![p] =
                     [@ EXCEPT !.pc = "returned", !.hit = FirstByJobId(sync_jobs, tasks[p].job_id)]]
          ELSE /\ sync_jobs' = sync_jobs
               /\ tasks' = [tasks EXCEPT ![p] = [@ EXCEPT !.pc = "except", !.store_error = TRUE]]
    /\ UNCHANGED <<k8s_resources, argocd_applications, services, service_health, cluster_info,
                   envVars, runVars, webhookVars, is_running, collection>>

\* the except block: update_one({"job_id": job_id}, status failed, last_error);
\* an exception of the store here leaves the coroutine
JobFailed(p) ==
    /\ tasks[p].pc = "except"
    /\ \E ok \in BOOLEAN :
          IF ok
          THEN /\ sync_jobs' = finalize_job(sync_jobs, tasks[p].job_id, "failed", now, "store error")
               /\ tasks' = [tasks EXCEPT ![p] =
                     [@ EXCEPT !.pc = "returned", !.hit = FirstByJobId(sync_jobs, tasks[p].job_id)]]
          ELSE /\ sync_jobs' = sync_jobs
               /\ tasks' = [tasks EXCEPT ![p] = [@ EXCEPT !.pc = "raised"]]
    /\ UNCHANGED <<k8s_resources, argocd_applications, services, service_health, cluster_info,
                   envVars, runVars, webhookVars, is_running, collection>>

NextJobs ==
    \/ Tick
    \/ FullSyncCall
    \/ IncrementalSyncCall
    \/ \E p \in 1..Len(tasks) : JobInsert(p) \/ SyncSteps(p) \/ JobCompleted(p) \/ JobFailed(p)

SpecJobs == InitJobs /\ [][NextJobs]_vars

\* every run has returned and no call on sync_jobs raised
AllRunsReturnedCleanly ==
    /\ tasks # <<>>
    /\ \A p \in 1..Len(tasks) : tasks[p].pc = "returned" /\ ~tasks[p].store_error

\* C13: once every sync run has returned (the store working throughout), no
\* SyncJob row is still running, and no row was finalized by two runs.
C13_JobLifecycle ==
    AllRunsReturnedCleanly =>
        /\ \A i \in 1..Len(sync_jobs) : sync_jobs[i].status \in {"completed", "failed"}
        /\ \A p, q \in 1..Len(tasks) : tasks[p].hit = tasks[q].hit => p = q

\* C14: a SyncJob row that is completed or failed is never changed by a later step.
C14_TerminalJobsImmutable ==
    [][\A i \in 1..Len(sync_jobs) :
          sync_jobs[i].status \in {"completed", "failed"} => sync_jobs'[i] = sync_jobs[i]]_vars

\* C15: a run in which a step met an exception ends with its SyncJob failed
\* and carrying the error, not completed.
C15_StepFailureRecorded ==
    \A p \in 1..Len(tasks) :
        (tasks[p].pc = "returned" /\ tasks[p].step_failed # "none" /\ Len(tasks) = 1)
        => /\ sync_jobs[tasks[p].hit].status = "failed"
           /\ sync_jobs[tasks[p].hit].last_error # NoError


\* --------------------------- start_sync_service, stop_sync_service, loop
\* the locals of a call of start_sync_service (role "start") or of the
\* _periodic_sync task it creates (role "periodic"), with the locals of the
\* sync run it awaits. saw_running: the call found is_running set; parent:
\* the call that created the task; ticks, failures: syncs begun by the loop
\* and exceptions that reached its except clause
ServiceTask(role, parent) ==
    [role |-> role, kind |-> IF role = "start" THEN "full_sync" ELSE "incremental_sync",
     pc |-> IF role = "periodic" THEN "sleep" ELSE "check", job_id |-> <<>>,
     step_failed |-> "none", store_error |-> FALSE, hit |-> 0,
     saw_running |-> FALSE, parent |-> parent, ticks |-> 0, failures |-> 0]

\* the ghost fields of the finished run are of no use to its caller
Forget(task) == [task EXCEPT !.step_failed = "none", !.store_error = FALSE, !.hit = 0]

\* a variant of the test of is_running that never finds it set
is_already_running_ignored(running) == FALSE

\* start_sync_service: if self.is_running
is_already_running(running) == running

\* a loop without the try/except around its body: the exception ends the task
periodic_sync_unprotected == "ended"

\* _periodic_sync: where an exception raised in the loop body leads, the
\* except clause with its sleep of a minute
periodic_sync_on_exception == "backoff"

\* while self.is_running
WhileIsRunning(running) == IF running THEN "sleep" ELSE "ended"

InitService ==
    /\ cluster_resources = JobsCluster
    /\ cluster_apps = JobsApps
    /\ env_changes = 0
    /\ InitStore
    /\ InitRun
    /\ InitWebhook
    /\ InitTasks

\* the calls of start_sync_service and stop_sync_service made so far
Calls == {p \in 1..Len(tasks) : tasks[p].role \in {"start", "stop"}}

\* a caller awaits start_sync_service()
StartCall ==
    /\ Cardinality(Calls) < MaxCalls
    /\ tasks' = Append(tasks, ServiceTask("start", 0))
    /\ UNCHANGED <<syncVars, webhookVars, is_running, collection>>

\* start_sync_service up to its first await: the test of is_running, the
\* flag, and full_sync up to the await of insert_one
StartCheck(p) ==
    /\ tasks[p].role = "start"
    /\ tasks[p].pc = "check"
    /\ IF is_already_running(is_running)
       THEN /\ tasks' = [tasks EXCEPT ![p] = [@ EXCEPT !.pc = "noop", !.saw_running = is_running]]
            /\ UNCHANGED is_running
       ELSE /\ is_running' = TRUE
            /\ tasks' = [tasks EXCEPT ![p] =
                  [@ EXCEPT !.pc = "insert", !.job_id = <<"full_sync", now>>,
                            !.saw_running = is_running]]
    /\ UNCHANGED <<syncVars, webhookVars, collection>>

\* full_sync has returned: asyncio.create_task(self._periodic_sync())
StartSpawn(p) ==
    /\ tasks[p].role = "start"
    /\ tasks[p].pc = "returned"
    /\ tasks' = Append([tasks EXCEPT ![p] = [Forget(@) EXCEPT !.pc = "done"]],
                       ServiceTask("periodic", p))
    /\ UNCHANGED <<syncVars, webhookVars, is_running, collection>>

\* stop_sync_service, which has no await: the whole call
StopCall ==
    /\ Cardinality(Calls) < MaxCalls
    /\ is_running' = FALSE
    /\ tasks' = Append(tasks, [ServiceTask("stop", 0) EXCEPT !.pc = "done", !.saw_running = is_running])
    /\ UNCHANGED <<syncVars, webhookVars, collection>>

\* asyncio.sleep(self.sync_interval) is over: incremental_sync begins when
\* is_running is still set, else the while test ends the loop
LoopWake(p) ==
    /\ tasks[p].role = "periodic"
    /\ tasks[p].pc = "sleep"
    /\ tasks[p].ticks < MaxTicks
    /\ now' = now + 1
    /\ tasks' = [tasks EXCEPT ![p] =
          IF is_running
          THEN [@ EXCEPT !.pc = "insert", !.job_id = <<"incremental_sync", now'>>,
                         !.ticks = @ + 1, !.step_failed = "none", !.store_error = FALSE, !.hit = 0]
          ELSE [@ EXCEPT !.pc = "ended"]]
    /\ UNCHANGED <<storeVars, envVars, pc, run, runs, last_saved, disc_log, health_log,
                   webhookVars, is_running, collection>>

\* incremental_sync has returned: the while test
LoopReturn(p) ==
    /\ tasks[p].role = "periodic"
    /\ tasks[p].pc = "returned"
    /\ tasks' = [tasks EXCEPT ![p] = [Forget(@) EXCEPT !.pc = WhileIsRunning(is_running)]]
    /\ UNCHANGED <<syncVars, webhookVars, is_running, collection>>

\* an exception left incremental_sync
LoopExcept(p) ==
    /\ tasks[p].role = "periodic"
    /\ tasks[p].pc = "raised"
    /\ tasks' = [tasks EXCEPT ![p] =
          [Forget(@) EXCEPT !.pc = periodic_sync_on_exception, !.failures = @ + 1]]
    /\ UNCHANGED <<syncVars, webhookVars, is_running, collection>>

\* asyncio.sleep(60) is over: the while test
LoopBackoffDone(p) ==
    /\ tasks[p].role = "periodic"
    /\ tasks[p].pc = "backoff"
    /\ now' = now + 1
    /\ tasks' = [tasks EXCEPT ![p] = [@ EXCEPT !.pc = WhileIsRunning(is_running)]]
    /\ UNCHANGED <<storeVars, envVars, pc, run, runs, last_saved, disc_log, health_log,
                   webhookVars, is_running, collection>>

\* the steps of a run awaited by start_sync_service or by the loop: a step
\* that meets an exception returns like one that does not, so the caller
\* sees the same run; the runs here are those in which no step meets one
ServiceSyncSteps(p) == SyncStepsAmong(p, {})

ServiceStep(p) ==
    \/ StartCheck(p)
    \/ StartSpawn(p)
    \/ LoopWake(p)
    \/ LoopReturn(p)
    \/ LoopExcept(p)
    \/ LoopBackoffDone(p)
    \/ JobInsert(p)
    \/ ServiceSyncSteps(p)
    \/ JobCompleted(p)
    \/ JobFailed(p)

NextService ==
    \/ StartCall
    \/ StopCall
    \/ \E p \in 1..Len(tasks) : ServiceStep(p)

SpecService == InitService /\ [][NextService]_vars

\* the event loop runs every task that is ready: each task takes its next
\* step when that step stays possible
TaskIds == 1..(2 * MaxCalls)

\* the steps of task p other than the steps of its sync run
ServiceControlStep(p) ==
    \/ StartCheck(p)
    \/ StartSpawn(p)
    \/ LoopWake(p)
    \/ LoopReturn(p)
    \/ LoopExcept(p)
    \/ LoopBackoffDone(p)
    \/ JobInsert(p)
    \/ JobCompleted(p)
    \/ JobFailed(p)

\* a task in the try block of its sync run can always go on, and going on
\* takes it to the finalization: weak fairness of that step is that the task
\* is not in the try block for ever
SyncStepsFair(p) == []<>~(p <= Len(tasks) /\ tasks[p].pc = "steps")

SpecServiceFair ==
    /\ InitService
    /\ [][NextService]_vars
    /\ \A p \in TaskIds : WF_vars(p <= Len(tasks) /\ ServiceControlStep(p))
    /\ \A p \in TaskIds : SyncStepsFair(p)

\* the _periodic_sync task p is at the given position
LoopAt(p, where) ==
    p <= Len(tasks) /\ tasks[p].role = "periodic" /\ tasks[p].pc = where

\* C18: an exception that leaves a tick of _periodic_sync does not end the
\* loop: the loop ends only at a while test that finds is_running clear, and
\* from the backoff sleep it goes on to begin another tick, unless the
\* service is stopped meanwhile (or the loop has begun MaxTicks ticks).
C18_LoopSurvivesTickFailure ==
    /\ [][\A p \in TaskIds :
             (LoopAt(p, "raised") \/ LoopAt(p, "backoff") \/ LoopAt(p, "returned") \/ LoopAt(p, "sleep"))
             /\ tasks'[p].pc = "ended" => ~is_running]_vars
    /\ \A p \in TaskIds :
           (LoopAt(p, "raised") \/ LoopAt(p, "backoff"))
             ~> (LoopAt(p, "insert") \/ ~is_running \/ (p <= Len(tasks) /\ tasks[p].ticks >= MaxTicks))

\* C18 witness: a loop whose earlier tick raised has begun a later tick,
\* with the service still running.
C18_Witness ==
    \E p \in 1..Len(tasks) :
        /\ LoopAt(p, "insert")
        /\ tasks[p].failures > 0
        /\ tasks[p].ticks = 2
        /\ is_running


\* the calls of start_sync_service that found is_running set
StartsWhileRunning == {p \in 1..Len(tasks) : tasks[p].role = "start" /\ tasks[p].saw_running}

\* the calls of start_sync_service that found is_running clear
StartsWhileStopped ==
    {p \in 1..Len(tasks) : tasks[p].role = "start" /\ tasks[p].pc # "check" /\ ~tasks[p].saw_running}

\* C16: a call of start_sync_service that finds is_running set returns at
\* once: it runs no sync, forms no job, raises nothing and creates no
\* _periodic_sync task; the full_sync rows and the loops are those of the
\* calls that found the flag clear, also while such a call's full sync is
\* still in flight.
C16_StartWhileRunningIsNoop ==
    /\ \A p \in StartsWhileRunning :
          /\ tasks[p].pc = "noop"
          /\ tasks[p].job_id = <<>>
          /\ ~tasks[p].store_error
          /\ \A q \in 1..Len(tasks) : tasks[q].parent # p
    /\ Cardinality({i \in 1..Len(sync_jobs) : sync_jobs[i].job_type = "full_sync"})
          <= Cardinality(StartsWhileStopped)
    /\ Cardinality({q \in 1..Len(tasks) : tasks[q].role = "periodic"})
          <= Cardinality(StartsWhileStopped)

\* C16 witness: a second call of start_sync_service has returned as a no-op
\* while the full sync of the first call is still in flight.
C16_Witness ==
    \E p, q \in 1..Len(tasks) :
        /\ tasks[p].role = "start"
        /\ ~tasks[p].saw_running
        /\ tasks[p].pc \in {"steps", "finalize"}
        /\ q \in StartsWhileRunning
        /\ tasks[q].pc = "noop"
        /\ Len(sync_jobs) = 1


\* ------------------------------ stop_sync_service followed by a new start
\* the task is inside start_sync_service or inside a tick of the loop
Busy(task) == task.pc \in {"check", "insert", "steps", "finalize", "except", "returned", "raised"}

\* the _periodic_sync tasks that have not ended
AliveLoops == {p \in 1..Len(tasks) : tasks[p].role = "periodic" /\ tasks[p].pc # "ended"}

\* a caller awaits start_sync_service(), at most MaxCalls times
StartAgainCall ==
    /\ Cardinality({p \in Calls : tasks[p].role = "start"}) < MaxCalls
    /\ tasks' = Append(tasks, ServiceTask("start", 0))
    /\ UNCHANGED <<syncVars, webhookVars, is_running, collection>>

\* stop_sync_service, at most MaxStops times
StopOnceCall ==
    /\ Cardinality({p \in Calls : tasks[p].role = "stop"}) < MaxStops
    /\ is_running' = FALSE
    /\ tasks' = Append(tasks, [ServiceTask("stop", 0) EXCEPT !.pc = "done", !.saw_running = is_running])
    /\ UNCHANGED <<syncVars, webhookVars, collection>>

\* the runs in which no two tasks are inside start_sync_service or a tick
\* at the same time: a task goes on only while every other task sleeps, has
\* returned or has ended
NextRestart ==
    \/ StartAgainCall
    \/ StopOnceCall
    \/ \E p \in 1..Len(tasks) :
          /\ \A q \in 1..Len(tasks) : q # p => ~Busy(tasks[q])
          /\ ServiceStep(p)

SpecRestart == InitService /\ [][NextRestart]_vars

\* C26: at most one _periodic_sync task of the DataSyncService is alive.
C26_AtMostOneLoop == Cardinality(AliveLoops) <= 1

\* C27: when is_running is set and no call of start_sync_service is in
\* progress, a _periodic_sync task is alive.
C27_RunningHasLoop ==
    (/\ is_running
     /\ \A p \in 1..Len(tasks) :
           tasks[p].role = "start" => tasks[p].pc \in {"noop", "done", "raised"})
    => \E p \in 1..Len(tasks) : tasks[p].role = "periodic" /\ tasks[p].pc # "ended"


\* ------------- AutoSyncService, ArgoCDDataFetcher and the sync endpoints
\* what ArgoCD can report in this part: orders (healthy or degraded) and pay
FetcherUniverse ==
    {Application("a1", AppOrders, "Healthy"), Application("a1", AppOrders, "Degraded"),
     Application("a2", AppPay, "Healthy")}

FetcherAppStates == {S \in SUBSET FetcherUniverse : ValidApps(S)}

\* transform_argocd_app_to_mongodb: the fields of the document that depend
\* on the application
transform_argocd_app_to_mongodb(app) ==
    [name |-> app.name, healthStatus |-> app.health, rawArgoCDData |-> app.uid]

\* the names of a sequence of applications or documents
NamesOf(docs) == {docs[i].name : i \in 1..Len(docs)}

\* index of the document with the name, 0 when there is none
FirstByName(coll, name) ==
    IF \E i \in 1..Len(coll) : coll[i].name = name
    THEN CHOOSE i \in 1..Len(coll) : coll[i].name = name /\ \A j \in 1..(i - 1) : coll[j].name # name
    ELSE 0

\* MongoDBClient.upsert_application: replace_one({"name": name}, doc, upsert=True)
upsert_application(coll, doc) ==
    IF FirstByName(coll, doc.name) = 0
    THEN Append(coll, doc)
    ELSE [coll EXCEPT ![FirstByName(coll, doc.name)] = doc]

\* MongoDBClient.delete_application: delete_one({"name": name})
delete_application(coll, name) ==
    IF FirstByName(coll, name) = 0
    THEN coll
    ELSE SubSeq(coll, 1, FirstByName(coll, name) - 1)
           \o SubSeq(coll, FirstByName(coll, name) + 1, Len(coll))

\* a variant of the test of the pull that goes on with an empty pull
pull_is_empty_ignored(pulled) == FALSE

\* sync_applications_to_mongodb: if not argocd_apps
pull_is_empty(pulled) == pulled = <<>>

\* the locals of a task: the loop of start_auto_sync (role "loop"), a
\* force_sync_now background task (role "force"), a call of
\* stop_continuous_sync (role "stop") or of start_continuous_sync (role
\* "start"). pulled, to_delete, i, success_count: locals of
\* sync_applications_to_mongodb; is_sync_task: the global sync_task refers to
\* the task; cancel: sync_task.cancel() was called and not yet delivered.
\* pulled_at (the rank of the pull among all pulls), store_error (a store
\* call of the sync raised), stopped_at (where the task was when
\* stop_continuous_sync was called), cancelled_at (where the CancelledError
\* was raised) record what happened
FetcherTask(role) ==
    [role |-> role,
     pc |-> CASE role = "loop" -> "begin" [] role = "force" -> "pull" [] OTHER -> "check",
     pulled |-> <<>>, to_delete |-> {}, i |-> 0, success_count |-> 0, result |-> "none",
     store_error |-> FALSE, pulled_at |-> 0, cancel |-> FALSE,
     stopped_at |-> "none", cancelled_at |-> "none",
     ticks |-> 0, is_sync_task |-> role = "loop"]

\* startup_event: sync_task = asyncio.create_task(auto_sync.start_auto_sync())
InitFetcher ==
    /\ cluster_resources = {}
    /\ cluster_apps = {Application("a1", AppOrders, "Healthy")}
    /\ env_changes = 0
    /\ InitStore
    /\ InitRun
    /\ InitWebhook
    /\ tasks = <<FetcherTask("loop")>>
    /\ is_running = FALSE
    /\ collection = <<>>

\* applications are created, deleted or change health in ArgoCD
FetcherAppsChange ==
    /\ env_changes < MaxEnvChanges
    /\ env_changes' = env_changes + 1
    /\ \E S \in FetcherAppStates : S # cluster_apps /\ cluster_apps' = S
    /\ UNCHANGED <<cluster_resources, storeVars, runVars, webhookVars, taskVars>>

\* the task can take a step of its own: a cancelled task gets the
\* CancelledError instead
Runs(p, where) == tasks[p].pc = where /\ ~tasks[p].cancel

\* the sync of the task is over: the loop sleeps, a forced sync is done
SyncOver(task, result) ==
    [task EXCEPT !.pc = IF task.role = "loop" THEN "sleep" ELSE "done",
                 !.result = result, !.to_delete = {}, !.i = 0, !.success_count = 0]

\* the rank of the next pull
NextPullRank == 1 + Cardinality({q \in 1..Len(tasks) : tasks[q].pulled_at > 0})

\* start_auto_sync up to its first await: the flag, the while test, and
\* sync_if_changed up to the pull
LoopBegin(p) ==
    /\ Runs(p, "begin")
    /\ is_running' = TRUE
    /\ tasks' = [tasks EXCEPT ![p] = [@ EXCEPT !.pc = "pull", !.ticks = 1]]
    /\ UNCHANGED <<syncVars, webhookVars, collection>>

\* get_argocd_applications, which returns [] when ArgoCD cannot be reached
\* or answers with an error, and the test of the pull
FetchPull(p) ==
    /\ Runs(p, "pull")
    /\ \E up \in BOOLEAN :
          LET pulled == IF up THEN get_applications(cluster_apps) ELSE <<>>
              rank == IF tasks[p].pulled_at > 0 THEN tasks[p].pulled_at ELSE NextPullRank
              task == [tasks[p] EXCEPT !.pulled = pulled, !.pulled_at = rank]
          IN tasks' = [tasks EXCEPT ![p] =
                 IF pull_is_empty(pulled)
                 THEN SyncOver(task, "false")
                 ELSE [task EXCEPT !.pc = "read"]]
    /\ UNCHANGED <<syncVars, webhookVars, is_running, collection>>

\* get_all_applications, which returns [] when the store raises, and
\* to_delete = current_names - argocd_names
FetchRead(p) ==
    /\ Runs(p, "read")
    /\ \E ok \in BOOLEAN :
          LET current_names == IF ok THEN NamesOf(collection) ELSE {}
              to_delete == current_names \ NamesOf(tasks[p].pulled)
          IN tasks' = [tasks EXCEPT ![p] =
                 [@ EXCEPT !.to_delete = to_delete,
                           !.pc = IF to_delete = {} THEN "upsert" ELSE "delete",
                           !.i = 1,
                           !.store_error = @ \/ ~ok]]
    /\ UNCHANGED <<syncVars, webhookVars, is_running, collection>>

\* one round of the loop over to_delete: delete_application, which returns
\* False when the store raises
FetchDelete(p) ==
    /\ Runs(p, "delete")
    /\ \E name \in tasks[p].to_delete, ok \in BOOLEAN :
          /\ collection' = IF ok THEN delete_application(collection, name) ELSE collection
          /\ tasks' = [tasks EXCEPT ![p] =
                [@ EXCEPT !.to_delete = @ \ {name},
                          !.pc = IF tasks[p].to_delete = {name} THEN "upsert" ELSE "delete",
                          !.store_error = @ \/ ~ok]]
    /\ UNCHANGED <<syncVars, webhookVars, is_running>>

\* one round of the loop over argocd_apps: transform and upsert_application,
\* which returns False when the store raises; after the last round the
\* result is success_count > 0
FetchUpsert(p) ==
    /\ Runs(p, "upsert")
    /\ \E ok \in BOOLEAN :
          LET doc == transform_argocd_app_to_mongodb(tasks[p].pulled[tasks[p].i])
              count == tasks[p].success_count + (IF ok THEN 1 ELSE 0)
              task == [tasks[p] EXCEPT !.store_error = @ \/ ~ok]
          IN /\ collection' = IF ok THEN upsert_application(collection, doc) ELSE collection
             /\ tasks' = [tasks EXCEPT ![p] =
                   IF tasks[p].i = Len(tasks[p].pulled)
                   THEN SyncOver(task, IF count > 0 THEN "true" ELSE "false")
                   ELSE [task EXCEPT !.i = @ + 1, !.success_count = count]]
    /\ UNCHANGED <<syncVars, webhookVars, is_running>>

\* asyncio.sleep(self.poll_interval) is over: the while test, and
\* sync_if_changed up to the pull
AutoSyncWake(p) ==
    /\ Runs(p, "sleep")
    /\ is_running => tasks[p].ticks < MaxTicks
    /\ tasks' = [tasks EXCEPT ![p] =
          IF is_running
          THEN [@ EXCEPT !.pc = "pull", !.ticks = @ + 1, !.store_error = FALSE]
          ELSE [@ EXCEPT !.pc = "ended"]]
    /\ UNCHANGED <<syncVars, webhookVars, is_running, collection>>

\* the task is done, in the sense of asyncio.Task.done()
TaskDone(task) == task.pc \in {"ended", "cancelled", "done"}

\* the task the global sync_task refers to, 0 for None
sync_task ==
    IF \E p \in 1..Len(tasks) : tasks[p].is_sync_task
    THEN CHOOSE p \in 1..Len(tasks) : tasks[p].is_sync_task
    ELSE 0

\* if sync_task and not sync_task.done()
SyncTaskRunning == sync_task # 0 /\ ~TaskDone(tasks[sync_task])

\* the requests made so far
Requests == {p \in 1..Len(tasks) : tasks[p].role # "loop"}

\* POST /api/dashboard/sync: background_tasks.add_task(force_sync_now)
TriggerSync ==
    /\ Cardinality(Requests) < MaxCalls
    /\ tasks' = Append(tasks, FetcherTask("force"))
    /\ UNCHANGED <<syncVars, webhookVars, is_running, collection>>

\* POST /api/dashboard/sync/stop up to its await: the test of sync_task,
\* and stop_auto_sync up to the await of close_session
StopContinuousSync ==
    /\ Cardinality(Requests) < MaxCalls
    /\ IF SyncTaskRunning
       THEN /\ is_running' = FALSE
            /\ tasks' = Append([tasks EXCEPT ![sync_task].stopped_at = tasks[sync_task].pc],
                               [FetcherTask("stop") EXCEPT !.pc = "close_session"])
       ELSE /\ tasks' = Append(tasks, [FetcherTask("stop") EXCEPT !.pc = "done", !.result = "warning"])
            /\ UNCHANGED is_running
    /\ UNCHANGED <<syncVars, webhookVars, collection>>

\* the rest of stop_continuous_sync: sync_task.cancel(), sync_task = None
StopCancel(p) ==
    /\ Runs(p, "close_session")
    /\ tasks' = [q \in 1..Len(tasks) |->
          IF q = p THEN [tasks[q] EXCEPT !.pc = "done", !.result = "success"]
          ELSE IF q = sync_task
          THEN [tasks[q] EXCEPT !.is_sync_task = FALSE, !.cancel = ~TaskDone(tasks[q])]
          ELSE tasks[q]]
    /\ UNCHANGED <<syncVars, webhookVars, is_running, collection>>

\* the event loop resumes a cancelled task: asyncio.CancelledError is raised
\* at the await the task is suspended at; it is no Exception, so no except
\* clause of the sync or of the loop catches it, and the task ends
TaskCancelled(p) ==
    /\ tasks[p].cancel
    /\ tasks' = [tasks EXCEPT ![p] =
          [@ EXCEPT !.pc = "cancelled", !.cancelled_at = tasks[p].pc, !.cancel = FALSE]]
    /\ UNCHANGED <<syncVars, webhookVars, is_running, collection>>

\* POST /api/dashboard/sync/start: a new loop task unless sync_task runs
StartContinuousSync ==
    /\ Cardinality(Requests) < MaxCalls
    /\ IF SyncTaskRunning
       THEN tasks' = Append(tasks, [FetcherTask("start") EXCEPT !.pc = "done", !.result = "warning"])
       ELSE tasks' = [q \in 1..(Len(tasks) + 2) |->
                IF q = Len(tasks) + 1 THEN [FetcherTask("start") EXCEPT !.pc = "done", !.result = "success"]
                ELSE IF q = Len(tasks) + 2 THEN FetcherTask("loop")
                ELSE [tasks[q] EXCEPT !.is_sync_task = FALSE]]
    /\ UNCHANGED <<syncVars, webhookVars, is_running, collection>>

FetcherStep(p) ==
    \/ LoopBegin(p)
    \/ FetchPull(p)
    \/ FetchRead(p)
    \/ FetchDelete(p)
    \/ FetchUpsert(p)
    \/ AutoSyncWake(p)
    \/ StopCancel(p)
    \/ TaskCancelled(p)

NextFetcher ==
    \/ FetcherAppsChange
    \/ TriggerSync
    \/ StopContinuousSync
    \/ StartContinuousSync
    \/ \E p \in 1..Len(tasks) : FetcherStep(p)

SpecFetcher == InitFetcher /\ [][NextFetcher]_vars

\* the positions of a task inside sync_applications_to_mongodb
InTick == {"pull", "read", "delete", "upsert"}

\* C17: a tick that is in flight when stop_continuous_sync is called is not
\* cancelled: the loop task does not get a CancelledError inside a sync
\* (between the pull and the last upsert) after such a stop.
C17_StopLetsTickFinish ==
    \A p \in 1..Len(tasks) :
        (tasks[p].role = "loop" /\ tasks[p].stopped_at \in InTick /\ tasks[p].pc = "cancelled")
        => tasks[p].cancelled_at \notin InTick

\* every task is at rest, the loop and a forced sync have each finished a
\* sync, and no store call of theirs raised
BothSyncsFinished ==
    /\ \A p \in 1..Len(tasks) :
          /\ tasks[p].pc \in {"sleep", "ended", "done"}
          /\ ~tasks[p].cancel
          /\ ~tasks[p].store_error
    /\ \E p, q \in 1..Len(tasks) :
          /\ tasks[p].role = "loop" /\ tasks[p].pulled_at > 0
          /\ tasks[q].role = "force" /\ tasks[q].pulled_at > 0

\* the pull made last among the pulls of the tasks
MostRecentPull ==
    LET p == CHOOSE p \in 1..Len(tasks) :
                 /\ tasks[p].pulled_at > 0
                 /\ \A q \in 1..Len(tasks) : tasks[q].pulled_at <= tasks[p].pulled_at
    IN tasks[p].pulled

\* C19: after the scheduled sync and a forced sync have both finished, every
\* application of the most recent pull is stored, and no name is stored twice.
C19_ForcedSyncRaceSafe ==
    BothSyncsFinished =>
        /\ NamesOf(MostRecentPull) \subseteq NamesOf(collection)
        /\ \A i, j \in 1..Len(collection) : collection[i].name = collection[j].name => i = j

C25_StoredNamesArePulledNames ==
    [][\A p \in 1..Len(tasks) :
          (/\ tasks[p].pc = "upsert"
           /\ tasks'[p].pc \in {"sleep", "done"}
           /\ \A q \in 1..Len(tasks) : ~tasks'[q].store_error)
          => NamesOf(collection') = NamesOf(tasks[p].pulled)]_vars


\* ------------------------------ ServiceDiscovery.update_existing_services
\* the orders Deployment as kubectl reports it: the image of its first
\* container and spec.replicas
RefreshDeployment(image, replicas) ==
    [kind |-> "Deployment", name |-> SvcOrders, namespace |-> NsProd,
     image |-> image, spec_replicas |-> replicas, containers |-> 1]

RefreshDeployments == {RefreshDeployment(image, r) : image \in {"v1", "v2"}, r \in 1..MaxReplicas}

\* _create_service_metadata, with the fields of the record that the refresh
\* writes (docker_image, k8s_config, updated_at, last_k8s_sync) and fields
\* it does not name (status, ingress_url; port and domain inside k8s_config)
service_metadata(deployment, t) ==
    [service_name |-> deployment.name, namespace |-> deployment.namespace,
     docker_image |-> deployment.image,
     k8s_config |-> [replicas |-> deployment.spec_replicas, port |-> 8000, domain |-> "default"],
     status |-> "running", ingress_url |-> "default",
     updated_at |-> t, last_k8s_sync |-> Absent]

\* _update_service_from_k8s: k8s_config = service.get("k8s_config", {}) with
\* update({... "replicas": replicas}): the other keys are those of the
\* record as it was read
k8s_config_update(service, deployment) ==
    [service.k8s_config EXCEPT !.replicas = deployment.spec_replicas]

\* update_one({"_id": service["_id"]}, {"$set": {docker_image, k8s_config,
\* k8s_labels, k8s_annotations, updated_at, last_k8s_sync}}) applied to the
\* stored record doc; service is the record as the refresh read it
update_one_set(doc, service, deployment, t) ==
    [doc EXCEPT !.docker_image = deployment.image,
                !.k8s_config = k8s_config_update(service, deployment),
                !.updated_at = t, !.last_k8s_sync = t]

\* the locals of a call of update_existing_services: the records find({})
\* returned and the place in the loop over them
RefreshTask == [kind |-> "refresh", pc |-> "find", read |-> <<>>, i |-> 0]

\* a store with the record of orders, discovered earlier
InitRefresh ==
    /\ cluster_resources = {RefreshDeployment("v1", 1)}
    /\ cluster_apps = {}
    /\ env_changes = 0
    /\ k8s_resources = <<>>
    /\ argocd_applications = <<>>
    /\ services = <<service_metadata(RefreshDeployment("v1", 1), 0)>>
    /\ service_health = <<>>
    /\ sync_jobs = <<>>
    /\ cluster_info = <<>>
    /\ InitRun
    /\ InitWebhook
    /\ InitTasks

\* the Deployment is updated in the cluster: a new image or replica count
DeploymentChange ==
    /\ env_changes < MaxEnvChanges
    /\ env_changes' = env_changes + 1
    /\ \E d \in RefreshDeployments : {d} # cluster_resources /\ cluster_resources' = {d}
    /\ UNCHANGED <<cluster_apps, storeVars, runVars, webhookVars, taskVars>>

\* someone edits a field of the stored record that discovery does not
\* derive: the port or the domain in k8s_config, ingress_url, status
ManualEdit ==
    /\ env_changes < MaxEnvChanges
    /\ env_changes' = env_changes + 1
    /\ \E i \in 1..Len(services) :
          \E doc \in {[services[i] EXCEPT !.k8s_config.port = 9000],
                      [services[i] EXCEPT !.k8s_config.domain = "manual"],
                      [services[i] EXCEPT !.ingress_url = "manual"],
                      [services[i] EXCEPT !.status = "stopped"]} :
              services' = [services EXCEPT ![i] = doc]
    /\ UNCHANGED <<cluster_resources, cluster_apps, k8s_resources, argocd_applications,
                   service_health, sync_jobs, cluster_info, runVars, webhookVars, taskVars>>

\* update_existing_services is called
RefreshCall ==
    /\ Len(tasks) < MaxPasses
    /\ tasks' = Append(tasks, RefreshTask)
    /\ UNCHANGED <<syncVars, webhookVars, is_running, collection>>

\* services = await self.services_collection.find({}).to_list(None)
RefreshFind(p) ==
    /\ tasks[p].kind = "refresh"
    /\ tasks[p].pc = "find"
    /\ tasks' = [tasks EXCEPT ![p] = [@ EXCEPT !.pc = "update", !.read = services, !.i = 1]]
    /\ UNCHANGED <<syncVars, webhookVars, is_running, collection>>

\* one round of the loop: get_deployments(namespace), the Deployment of the
\* service's name, and _update_service_from_k8s with its update_one; the
\* clock has gone on since the records were read
RefreshUpdate(p) ==
    /\ tasks[p].kind = "refresh"
    /\ tasks[p].pc = "update"
    /\ LET service == tasks[p].read[tasks[p].i]
           found == {d \in cluster_resources :
                        /\ d.kind = "Deployment"
                        /\ d.namespace = service.namespace
                        /\ d.name = service.service_name}
       IN /\ services' =
                IF found = {} THEN services
                ELSE [j \in 1..Len(services) |->
                         IF j = tasks[p].i
                         THEN update_one_set(services[j], service, CHOOSE d \in found : TRUE, now + 1)
                         ELSE services[j]]
          /\ tasks' = [tasks EXCEPT ![p] =
                [@ EXCEPT !.i = @ + 1,
                          !.pc = IF tasks[p].i = Len(tasks[p].read) THEN "done" ELSE "update"]]
    /\ UNCHANGED <<k8s_resources, argocd_applications, service_health, sync_jobs, cluster_info,
                   envVars, runVars, webhookVars, is_running, collection>>

NextRefresh ==
    \/ DeploymentChange
    \/ ManualEdit
    \/ RefreshCall
    \/ \E p \in 1..Len(tasks) : RefreshFind(p)
    \/ \E p \in 1..Len(tasks) : RefreshUpdate(p)

SpecRefresh == InitRefresh /\ [][NextRefresh]_vars

\* the fields of a ServiceMetadata record that discovery does not derive
KeptFields(doc) ==
    <<doc.service_name, doc.namespace, doc.status, doc.ingress_url,
      doc.k8s_config.port, doc.k8s_config.domain>>

\* C24: a step of the refresh leaves the fields that discovery does not
\* derive as they are stored, also when they were edited after the refresh
\* read the record.
C24_RefreshFrame ==
    [][tasks' # tasks =>
         \A i \in 1..Len(services) : KeptFields(services'[i]) = KeptFields(services[i])]_vars


\* ------------------------------------------- listings with unreadable items
\* the orders Deployment, a Deployment of the same namespace whose metadata
\* has no uid, a Deployment of another namespace and a Service
PullResourceUniverse ==
    {Deployment("u1", SvcOrders, NsProd, 1, 1, 1),
     Deployment(MissingField, SvcPay, NsProd, 1, 1, 1),
     Deployment("u3", SvcPay, NsDev, 1, 1, 1),
     ServiceObj("u4", SvcOrders, NsProd)}

\* applications whose details were read, and applications for which
\* argocd app get gave nothing: no uid, health "Unknown"
PullApplicationUniverse ==
    {Application("a1", AppOrders, "Healthy"), Application("a2", AppPay, "Progressing"),
     Application(MissingField, AppOrders, "Unknown"), Application(MissingField, AppPay, "Unknown")}

\* a full sync on an empty store, about to pull the resources
InitPull ==
    /\ cluster_resources \in {S \in SUBSET PullResourceUniverse : ValidCluster(S)}
    /\ cluster_apps \in {S \in SUBSET PullApplicationUniverse : ValidApps(S)}
    /\ env_changes = 0
    /\ k8s_resources = <<>>
    /\ argocd_applications = <<>>
    /\ services = <<>>
    /\ service_health = <<>>
    /\ sync_jobs = <<SyncJobDocument(<<"full_sync", 1>>, "full_sync", 1)>>
    /\ cluster_info = <<>>
    /\ pc = "resources"
    /\ run = [NoRun EXCEPT !.job_id = <<"full_sync", 1>>, !.job_type = "full_sync"]
    /\ now = 1
    /\ runs = 1
    /\ last_saved = [k8s |-> EmptyFn, app |-> EmptyFn, health |-> EmptyFn, info |-> EmptyFn]
    /\ disc_log = <<>>
    /\ health_log = [failed_at |-> 0, t |-> 0]
    /\ InitWebhook
    /\ InitTasks

NextPull ==
    \/ SyncK8sResources
    \/ DiscoverList
    \/ DiscoverFind
    \/ DiscoverInsert
    \/ DiscoverReturn
    \/ UpdateExistingServices
    \/ SyncArgoCDApplications
    \/ UpdateServiceHealth
    \/ FinalizeJob

SpecPull == InitPull /\ [][NextPull]_vars

\* C21: once the resources step of a tick is over, every item of a listing
\* that parses is saved, also when another item of the same listing does
\* not parse.
C21_PartialItemErrorsSkipped ==
    pc # "resources" =>
        \A x \in cluster_resources : \A y \in cluster_resources :
            (/\ x.uid # MissingField
             /\ y.uid = MissingField
             /\ y.kind = x.kind
             /\ y.namespace = x.namespace)
            => \E i \in 1..Len(k8s_resources) : k8s_resources[i].uid = x.uid

\* C30: once the applications step is over, every application of the pull
\* has a stored record of its own, also an application whose uid defaulted
\* to the empty string.
C30_NoPulledApplicationLost ==
    pc \in {"health", "finalize", "done"} =>
        \A i \in 1..Len(run.applications) :
            \E j \in 1..Len(argocd_applications) :
                /\ argocd_applications[j].uid = run.applications[i].uid
                /\ argocd_applications[j].name = run.applications[i].name

====
